---- MODULE Spec2Model ----
(***************************************************************************)
(* TexSyn: texture synthesis by image quilting (Efros and Freeman,         *)
(* src/src/quilt.rs) and by per-pixel neighbourhood search (Efros and      *)
(* Leung, src/libtexsyn/src/generators/per_pixel/search.rs and the older   *)
(* copy at the end of src/src/quilt.rs).                                   *)
(*                                                                         *)
(* The specifications share the variables below:                         *)
(*   SpecParams        the constructors QuilterParams::new,                *)
(*                     PixelSearchParams::new and PixelSearch::new,        *)
(*                     applied to inputs drawn from bounded sets;          *)
(*   SpecQuilt         Quilter::quilt_image, one step per loop iteration;  *)
(*   FairSpecSampling  quilt_image in probabilistic mode, its random draws *)
(*                     fair;                                               *)
(*   SpecSearch        PixelSearch::synthesize, one step per loop          *)
(*                     iteration;                                          *)
(*   SpecKernels       the functions quilt_image is built from and         *)
(*                     Neighbourhood::image_iter, each applied once to     *)
(*                     inputs drawn from bounded sets.                     *)
(*                                                                         *)
(* Numbers are u32 values small enough that no addition or multiplication  *)
(* of the code wraps; the subtractions that can go below zero are modelled *)
(* where they occur.  f64 values are the integers (or the exact ratios of  *)
(* integers) the code computes: every error select_candidate compares is   *)
(* an integer below 50, where x < best * (1. + 0.1) in f64 agrees with     *)
(* 10 * x < 11 * best.                                                     *)
(***************************************************************************)
EXTENDS Integers, Sequences, FiniteSets, TLC

VARIABLES
    call,        \* SpecParams: the constructor call under test
    ret,         \* SpecParams: what the call returned, None before it ran
    build,       \* "debug" (overflow checks on) or "release" (wrapping)
    source,      \* the exemplar image owned by the generator
    params,      \* QuilterParams or PixelSearchParams
    buffer_opt,  \* Option<RgbImage>: the working buffer
    pc,          \* position of the running quilt_image / synthesize
    result,      \* what quilt_image / synthesize returned, None before
    written,     \* history: buffer cells written from the source so far
    patch_no,    \* quilt_image: (patch_x, patch_y) of the loop
    scan,        \* select_candidate: progress, current_best, candidates_scores
    candidate,   \* quilt_image: Option<Patch> picked by select_candidate
    trace,       \* history: what quilt_image has done (searches, blits)
    mask,        \* synthesize: the mask image
    n_pixels,    \* synthesize: the counter of pixels left
    seed_src,    \* synthesize: the (sx, sy) the seed block was read from
    impl         \* which copy of PixelSearch runs: "src/quilt.rs" or "search.rs"

vars == <<call, ret, build, source, params, buffer_opt, pc, result, written,
          patch_no, scan, candidate, trace, mask, n_pixels, seed_src, impl>>

genVars    == <<source, params, buffer_opt, pc, result, written>>
quiltVars  == <<patch_no, scan, candidate, trace>>
searchVars == <<mask, n_pixels, seed_src, impl>>
ctorVars   == <<call, ret>>

----------------------------------------------------------------------------
(* Option<T> and Result<T>                                                 *)

None == <<>>

Some(v) == <<v>>

IsSome(o) == o # None

Unwrap(o) == o[1]

Ok(v) == [tag |-> "Ok", val |-> v]

InvalidArguments(msg) == [tag |-> "Err", kind |-> "InvalidArguments", msg |-> msg]

\* A panic (failed assert, index out of bounds, unwrap of None, overflow
\* check of a debug build): the call never returns.
Panic(why) == [tag |-> "Panic", why |-> why]

\* F applied to the value of v, which is computed once.
Bind(v, F(_)) == CHOOSE r \in {F(x) : x \in {v}} : TRUE

Min(a, b) == IF a <= b THEN a ELSE b

Max(a, b) == IF a >= b THEN a ELSE b

Abs(a) == IF a >= 0 THEN a ELSE 0 - a

----------------------------------------------------------------------------
(* Bounds of the model                                                     *)

\* Largest output width handed to a constructor.
MaxOut == 5

\* Largest output height handed to a constructor.
MaxOutHeight == 3

\* Largest patch_size handed to QuilterParams::new.
MaxPatch == 4

\* Largest overlap handed to QuilterParams::new.
MaxOverlap == 2

\* Largest window_size handed to PixelSearchParams::new.
MaxWindow == 5

\* Largest seed coordinate handed to a constructor.
MaxSeed == 3

\* Largest source width and height handed to PixelSearch::new.
MaxSrc == 5

\* Largest output width and height PixelSearch::synthesize is run on.
MaxSearchOut == 4

\* Largest window_size PixelSearch::synthesize is run with.
MaxSearchWindow == 3

Builds == {"debug", "release"}

----------------------------------------------------------------------------
(* Constructors                                                            *)

\* selection_chance is an f64; the model writes it in tenths.
Chances == {None, Some(-5), Some(0), Some(5), Some(10)}

SeedOptions == {None} \cup {Some(<<x, y>>) : x \in 0..MaxSeed, y \in 0..MaxSeed}

\* QuilterParams::new with the patch_size test off by one: patch_size equal
\* to 2 * overlap is refused.
QuilterParamsNew_strict(size, patch_size, overlap, seed_coords, selection_chance) ==
    IF size[1] = 0 \/ size[2] = 0
    THEN InvalidArguments("Output size can't be zero")
    ELSE IF overlap = 0
    THEN InvalidArguments("Overlap size can't be zero")
    ELSE IF patch_size <= 2 * overlap
    THEN InvalidArguments("Patch size must be at least twice the overlap area size")
    ELSE IF IsSome(selection_chance) /\ Unwrap(selection_chance) <= 0
    THEN InvalidArguments("Selection chance must be strictly positive")
    ELSE Ok([size |-> size, patch_size |-> patch_size, overlap |-> overlap,
             seed_coords |-> seed_coords, selection_chance |-> selection_chance])

QuilterParamsNew(size, patch_size, overlap, seed_coords, selection_chance) ==
    IF size[1] = 0 \/ size[2] = 0
    THEN InvalidArguments("Output size can't be zero")
    ELSE IF overlap = 0
    THEN InvalidArguments("Overlap size can't be zero")
    ELSE IF patch_size < 2 * overlap
    THEN InvalidArguments("Patch size must be at least twice the overlap area size")
    ELSE IF IsSome(selection_chance) /\ Unwrap(selection_chance) <= 0
    THEN InvalidArguments("Selection chance must be strictly positive")
    ELSE Ok([size |-> size, patch_size |-> patch_size, overlap |-> overlap,
             seed_coords |-> seed_coords, selection_chance |-> selection_chance])

\* PixelSearchParams::new refusing only the positive even window sizes.
PixelSearchParamsNew_zero(size, window_size, seed_coords) ==
    IF window_size # 0 /\ window_size % 2 = 0
    THEN InvalidArguments("window_size must be odd")
    ELSE Ok([size |-> size, window_size |-> window_size, seed_coords |-> seed_coords])

PixelSearchParamsNew(size, window_size, seed_coords) ==
    IF window_size % 2 = 0
    THEN InvalidArguments("window_size must be odd")
    ELSE Ok([size |-> size, window_size |-> window_size, seed_coords |-> seed_coords])

\* c > a - b in u32.  In a release build a - b wraps to 2^32 - (b - a) when
\* a < b, which no modelled c exceeds; a debug build panics there.
SubOverflows(a, b) == a < b

GtSub(c, a, b) == IF a >= b THEN c > a - b ELSE FALSE

\* PixelSearch::new, given the source's dimensions.
PixelSearchNew(src_w, src_h, p, bld) ==
    IF IsSome(p.seed_coords)
    THEN LET coords == Unwrap(p.seed_coords) IN
         IF bld = "debug" /\ SubOverflows(src_w, 3)
         THEN Panic("attempt to subtract with overflow")
         ELSE IF GtSub(coords[1], src_w, 3)
         THEN InvalidArguments("Seed patch is outside source image")
         ELSE IF bld = "debug" /\ SubOverflows(src_h, 1)
         THEN Panic("attempt to subtract with overflow")
         ELSE IF GtSub(coords[2], src_h, 1)
         THEN InvalidArguments("Seed patch is outside source image")
         ELSE Ok(p)
    ELSE Ok(p)

----------------------------------------------------------------------------
(* Images                                                                  *)

\* An image is [w, h, px]; px maps <<x, y>> to an Rgb<u8> pixel <<r, g, b>>.
\* Reading or writing outside px's domain is the panic of get_pixel and
\* put_pixel.
Coords(w, h) == (0..(w - 1)) \X (0..(h - 1))

\* RgbImage::new, GrayImage::new: every channel zero.
Blank == <<0, 0, 0>>

NewImage(w, h) == [w |-> w, h |-> h, px |-> [c \in Coords(w, h) |-> Blank]]

InImage(img, x, y) == x >= 0 /\ y >= 0 /\ x < img.w /\ y < img.h

\* The sum of f over the cells S of its domain.
RECURSIVE SumOver(_, _)
SumOver(f, S) ==
    IF S = {} THEN 0
    ELSE LET c == CHOOSE c \in S : TRUE IN f[c] + SumOver(f, S \ {c})

\* distance::l1
l1(p1, p2) == Abs(p1[1] - p2[1]) + Abs(p1[2] - p2[2]) + Abs(p1[3] - p2[3])

\* The exemplars: two-colour textures, colour 1 where the pattern says so.
Shade(k) == <<k, 0, 0>>

Pattern(kind, x, y) ==
    IF kind = 1 THEN (IF (x + 2 * y) % 3 = 0 THEN 1 ELSE 0)
    ELSE (IF (x * y + y) % 2 = 0 THEN 1 ELSE 0)

Exemplar(kind, w, h) ==
    [w |-> w, h |-> h, px |-> [c \in Coords(w, h) |-> Shade(Pattern(kind, c[1], c[2]))]]

----------------------------------------------------------------------------
(* Quilting: geometry and errors                                           *)

\* f64::INFINITY, the first current_best: larger than any error of the model.
INFINITY == 1000000

\* patch_overlap_area with the first two arms exchanged.
patch_overlap_area_swapped(no) ==
    IF no[2] = 0 THEN "Top"
    ELSE IF no[1] = 0 THEN "Left"
    ELSE "TopLeft"

\* patch_overlap_area: no is (patch_x, patch_y), matched in this order.
patch_overlap_area(no) ==
    IF no[1] = 0 THEN "Top"
    ELSE IF no[2] = 0 THEN "Left"
    ELSE "TopLeft"

\* blit_rect: the cells of bottom it writes, as offsets from buf_coords.
RectOffsets(size) == Coords(size[1], size[2])

\* Copies top(rect_coords + o) to bottom(buf_coords + o) for every offset o.
PutFrom(bottom, top, rect_coords, buf_coords, offsets) ==
    LET target == {<<buf_coords[1] + o[1], buf_coords[2] + o[2]>> : o \in offsets} IN
    [bottom EXCEPT !.px =
        [c \in DOMAIN bottom.px |->
            IF c \in target
            THEN top.px[<<c[1] - buf_coords[1] + rect_coords[1],
                          c[2] - buf_coords[2] + rect_coords[2]>>]
            ELSE bottom.px[c]]]

\* Whether every write and read of PutFrom is inside its image.
PutFromInBounds(bottom, top, rect_coords, buf_coords, offsets) ==
    \A o \in offsets :
        /\ InImage(bottom, buf_coords[1] + o[1], buf_coords[2] + o[2])
        /\ InImage(top, rect_coords[1] + o[1], rect_coords[2] + o[2])

blit_rect(bottom, top, rect, buf_coords) ==
    PutFrom(bottom, top, rect.coords, buf_coords, RectOffsets(rect.size))

\* The pixel that get_pixel and put_pixel of an image buffer address at
\* (x, y), None when they panic.  The build decides how: checked, both
\* coordinates are tested against width and height; unchecked, only the
\* index y * width + x is tested against the length of the data, so that a
\* column past the width addresses a pixel of the next row.  A row past the
\* height panics either way.
PixelAt(img, x, y, checked) ==
    IF checked
    THEN IF InImage(img, x, y) THEN Some(<<x, y>>) ELSE None
    ELSE IF x >= 0 /\ y >= 0 /\ y * img.w + x < img.w * img.h
         THEN Some(<<(y * img.w + x) % img.w, (y * img.w + x) \div img.w>>)
         ELSE None

\* The offsets of the two loops of blit_rect in their order: x outside, y
\* inside.
BlitOrder(size) ==
    [k \in 1..(size[1] * size[2]) |-> <<(k - 1) \div size[2], (k - 1) % size[2]>>]

\* blit_rect pixel by pixel from the state st = [img, cells, ok] on: the
\* image so far, the cells put, and whether no get_pixel or put_pixel has
\* panicked.  It stops at the first panic and keeps what was put before.
RECURSIVE BlitPixels(_, _, _, _, _, _)
BlitPixels(st, top, rect_coords, buf_coords, order, checked) ==
    IF order = <<>> THEN st
    ELSE LET o == Head(order)
             from == PixelAt(top, o[1] + rect_coords[1], o[2] + rect_coords[2], checked)
             to == PixelAt(st.img, buf_coords[1] + o[1], buf_coords[2] + o[2], checked)
         IN  IF from = None \/ to = None
             THEN [st EXCEPT !.ok = FALSE]
             ELSE BlitPixels([img |-> [st.img EXCEPT !.px[Unwrap(to)] = top.px[Unwrap(from)]],
                              cells |-> st.cells \cup {Unwrap(to)},
                              ok |-> TRUE],
                             top, rect_coords, buf_coords, Tail(order), checked)

\* patch_rect_error with the last row of the rectangle left out.
patch_rect_error_short(img1, img2, coords_i1, coords_i2, rect_size) ==
    LET rows == <<rect_size[1], Max(rect_size[2] - 1, 0)>>
        d == [o \in RectOffsets(rows) |->
                l1(img1.px[<<o[1] + coords_i1[1], o[2] + coords_i1[2]>>],
                   img2.px[<<o[1] + coords_i2[1], o[2] + coords_i2[2]>>])]
    IN  SumOver(d, RectOffsets(rows))

\* patch_rect_error: acc over y in 0..rect_size.1, x in 0..rect_size.0.
patch_rect_error(img1, img2, coords_i1, coords_i2, rect_size) ==
    LET d == [o \in RectOffsets(rect_size) |->
                l1(img1.px[<<o[1] + coords_i1[1], o[2] + coords_i1[2]>>],
                   img2.px[<<o[1] + coords_i2[1], o[2] + coords_i2[2]>>])]
    IN  SumOver(d, RectOffsets(rect_size))

\* patch_rect_error in a build whose get_pixel tests the index alone:
\* Ok(the sum over the pixels addressed), or the panic of an index past the
\* data.
patch_rect_error_unchecked(img1, img2, coords_i1, coords_i2, rect_size) ==
    LET at == [o \in RectOffsets(rect_size) |->
                 <<PixelAt(img1, o[1] + coords_i1[1], o[2] + coords_i1[2], FALSE),
                   PixelAt(img2, o[1] + coords_i2[1], o[2] + coords_i2[2], FALSE)>>]
    IN  IF \E o \in RectOffsets(rect_size) : at[o][1] = None \/ at[o][2] = None
        THEN Panic("Image index out of bounds")
        ELSE Ok(SumOver([o \in RectOffsets(rect_size) |->
                            l1(img1.px[Unwrap(at[o][1])], img2.px[Unwrap(at[o][2])])],
                        RectOffsets(rect_size)))

patch_error(src, buffer, overlap, area, patch, buf_coords) ==
    IF area = "Top"
    THEN patch_rect_error(src, buffer, patch.coords, buf_coords, <<overlap, patch.size>>)
    ELSE IF area = "Left"
    THEN patch_rect_error(src, buffer, patch.coords, buf_coords, <<patch.size, overlap>>)
    ELSE patch_rect_error(src, buffer, patch.coords, buf_coords, <<patch.size, overlap>>)
         + patch_rect_error(src, buffer,
                            <<patch.coords[1], patch.coords[2] + overlap>>,
                            <<buf_coords[1], buf_coords[2] + overlap>>,
                            <<overlap, patch.size - overlap>>)

\* The cells patch_error_surface fills for an area.
SurfaceCells(area, patch_size, overlap) ==
    IF area = "Top" THEN Coords(patch_size, overlap)
    ELSE IF area = "Left" THEN Coords(overlap, patch_size)
    ELSE Coords(patch_size, overlap)
         \cup {c \in Coords(overlap, patch_size) : c[2] >= overlap}

\* patch_error_surface: the buffer pixel it compares with is (xs + x, ys + x).
patch_error_surface(src, buffer, patch_size, overlap, area, patch, buf_coords) ==
    LET filled == SurfaceCells(area, patch_size, overlap) IN
    [c \in Coords(patch_size, patch_size) |->
        IF c \in filled
        THEN l1(src.px[<<patch.coords[1] + c[1], patch.coords[2] + c[2]>>],
                buffer.px[<<buf_coords[1] + c[1], buf_coords[2] + c[1]>>])
        ELSE 0]

----------------------------------------------------------------------------
(* Quilting: minimum-cost seams                                            *)

\* CostMap::new()
EmptyCostMap == [c \in {} |-> 0]

\* pixel_error of vertical_cost_map: returns <<cost_map, value>>.
RECURSIVE vertical_pixel_error(_, _, _, _, _)
vertical_pixel_error(cost_map, e, overlap, x, y) ==
    IF <<x, y>> \in DOMAIN cost_map
    THEN <<cost_map, cost_map[<<x, y>>]>>
    ELSE IF y = 0
    THEN <<(<<x, y>> :> e[<<x, y>>]) @@ cost_map, e[<<x, y>>]>>
    ELSE LET top == vertical_pixel_error(cost_map, e, overlap, x, y - 1)
             left == IF x # 0
                     THEN LET r == vertical_pixel_error(top[1], e, overlap, x - 1, y - 1)
                          IN  <<r[1], Min(top[2], r[2])>>
                     ELSE top
             right == IF x # overlap - 1
                      THEN LET r == vertical_pixel_error(left[1], e, overlap, x + 1, y - 1)
                           IN  <<r[1], Min(left[2], r[2])>>
                      ELSE left
             val == right[2] + e[<<x, y>>]
         IN  <<(<<x, y>> :> val) @@ right[1], val>>

RECURSIVE VerticalFrom(_, _, _, _, _)
VerticalFrom(cost_map, e, overlap, patch_size, x) ==
    IF x = overlap THEN cost_map
    ELSE VerticalFrom(vertical_pixel_error(cost_map, e, overlap, x, patch_size - 1)[1],
                      e, overlap, patch_size, x + 1)

vertical_cost_map(e, overlap, patch_size) ==
    VerticalFrom(EmptyCostMap, e, overlap, patch_size, 0)

\* pixel_error of horizontal_cost_map: returns <<cost_map, value>>.
RECURSIVE horizontal_pixel_error(_, _, _, _, _)
horizontal_pixel_error(cost_map, e, overlap, x, y) ==
    IF <<x, y>> \in DOMAIN cost_map
    THEN <<cost_map, cost_map[<<x, y>>]>>
    ELSE IF x = 0
    THEN <<(<<x, y>> :> e[<<x, y>>]) @@ cost_map, e[<<x, y>>]>>
    ELSE LET left == horizontal_pixel_error(cost_map, e, overlap, x - 1, y)
             up == IF y # 0
                   THEN LET r == horizontal_pixel_error(left[1], e, overlap, x - 1, y - 1)
                        IN  <<r[1], Min(left[2], r[2])>>
                   ELSE left
             down == IF y # overlap - 1
                     THEN LET r == horizontal_pixel_error(up[1], e, overlap, x - 1, y + 1)
                          IN  <<r[1], Min(up[2], r[2])>>
                     ELSE up
             val == down[2] + e[<<x, y>>]
         IN  <<(<<x, y>> :> val) @@ down[1], val>>

RECURSIVE HorizontalFrom(_, _, _, _, _)
HorizontalFrom(cost_map, e, overlap, patch_size, y) ==
    IF y = overlap THEN cost_map
    ELSE HorizontalFrom(horizontal_pixel_error(cost_map, e, overlap, patch_size - 1, y)[1],
                        e, overlap, patch_size, y + 1)

horizontal_cost_map(e, overlap, patch_size) ==
    HorizontalFrom(EmptyCostMap, e, overlap, patch_size, 0)

\* Iterator::min_by keeps the first of several minima.
FirstMinIndex(row, n) ==
    CHOOSE i \in 0..(n - 1) :
        /\ \A j \in 0..(n - 1) : row[i] <= row[j]
        /\ \A j \in 0..(i - 1) : row[j] > row[i]

\* The while loop of minimum_cost_vertical_path from (x, y) upwards: the
\* points pushed after (x, y).  cost_map[&key] panics on a missing key.
RECURSIVE VerticalWalk(_, _, _, _)
VerticalWalk(cost_map, overlap, x, y) ==
    IF y = 0 THEN Ok(<<>>)
    ELSE LET has(k) == k \in DOMAIN cost_map
             top == cost_map[<<x, y - 1>>]
             left == cost_map[<<x - 1, y - 1>>]
             right == cost_map[<<x + 1, y - 1>>]
             needs == IF x = 0 THEN {<<x, y - 1>>, <<x + 1, y - 1>>}
                      ELSE IF x = overlap - 1 THEN {<<x, y - 1>>, <<x - 1, y - 1>>}
                      ELSE {<<x, y - 1>>, <<x - 1, y - 1>>, <<x + 1, y - 1>>}
             nx == IF x = 0 THEN (IF right < top THEN x + 1 ELSE x)
                   ELSE IF x = overlap - 1 THEN (IF left < top THEN x - 1 ELSE x)
                   ELSE IF left < top THEN (IF left < right THEN x - 1 ELSE x)
                   ELSE IF right < top THEN x + 1 ELSE x
         IN  IF \E k \in needs : ~has(k)
             THEN Panic("cost_map: key not found")
             ELSE LET rest == VerticalWalk(cost_map, overlap, nx, y - 1) IN
                  IF rest.tag = "Ok" THEN Ok(<<<<nx, y - 1>>>> \o rest.val) ELSE rest

\* minimum_cost_vertical_path without the push of the starting point.
minimum_cost_vertical_path_headless(e, overlap, patch_size) ==
    LET cost_map == vertical_cost_map(e, overlap, patch_size)
        row == [x \in 0..(overlap - 1) |-> cost_map[<<x, patch_size - 1>>]]
        x0 == FirstMinIndex(row, overlap)
    IN  VerticalWalk(cost_map, overlap, x0, patch_size - 1)
minimum_cost_vertical_path(e, overlap, patch_size) ==
    LET cost_map == vertical_cost_map(e, overlap, patch_size)
        row == [x \in 0..(overlap - 1) |-> cost_map[<<x, patch_size - 1>>]]
        x0 == FirstMinIndex(row, overlap)
        rest == VerticalWalk(cost_map, overlap, x0, patch_size - 1)
    IN  IF rest.tag = "Ok" THEN Ok(<<<<x0, patch_size - 1>>>> \o rest.val) ELSE rest

RECURSIVE HorizontalWalk(_, _, _, _)
HorizontalWalk(cost_map, overlap, x, y) ==
    IF x = 0 THEN Ok(<<>>)
    ELSE LET has(k) == k \in DOMAIN cost_map
             left == cost_map[<<x - 1, y>>]
             up == cost_map[<<x - 1, y - 1>>]
             down == cost_map[<<x - 1, y + 1>>]
             needs == IF y = 0 THEN {<<x - 1, y>>, <<x - 1, y + 1>>}
                      ELSE IF y = overlap - 1 THEN {<<x - 1, y>>, <<x - 1, y - 1>>}
                      ELSE {<<x - 1, y>>, <<x - 1, y - 1>>, <<x - 1, y + 1>>}
             ny == IF y = 0 THEN (IF down < left THEN y + 1 ELSE y)
                   ELSE IF y = overlap - 1 THEN (IF up < left THEN y - 1 ELSE y)
                   ELSE IF up < left THEN (IF up < down THEN y - 1 ELSE y)
                   ELSE IF down < left THEN y + 1 ELSE y
         IN  IF \E k \in needs : ~has(k)
             THEN Panic("cost_map: key not found")
             ELSE LET rest == HorizontalWalk(cost_map, overlap, x - 1, ny) IN
                  IF rest.tag = "Ok" THEN Ok(<<<<x - 1, ny>>>> \o rest.val) ELSE rest

minimum_cost_horizontal_path(e, overlap, patch_size) ==
    LET cost_map == horizontal_cost_map(e, overlap, patch_size)
        column == [y \in 0..(overlap - 1) |-> cost_map[<<patch_size - 1, y>>]]
        y0 == FirstMinIndex(column, overlap)
        rest == HorizontalWalk(cost_map, overlap, patch_size - 1, y0)
    IN  IF rest.tag = "Ok" THEN Ok(<<<<patch_size - 1, y0>>>> \o rest.val) ELSE rest

----------------------------------------------------------------------------
(* Quilting: cut and blit                                                  *)
(*                                                                         *)
(* Every put_pixel of the cut_and_blit functions, and of the blit_rect     *)
(* that ends cut_and_blit_patch, copies source(patch.coords + o) to        *)
(* buffer(buf_coords + o) for an offset o inside the patch.  Each function *)
(* is modelled by the set of offsets o it writes; QuiltBlitPatch copies    *)
(* the pixels.                                                             *)

\* cut_and_blit_vertical: right of the path in each of its rows, under the
\* two guards of the code.
cut_and_blit_vertical(buffer, overlap, patch, path) ==
    {o \in Coords(overlap, patch.size) :
        \E i \in 1..Len(path) :
            /\ path[i][2] = o[2]
            /\ path[i][2] + patch.coords[2] < buffer.h
            /\ o[1] >= path[i][1] /\ o[1] < buffer.w}

\* cut_and_blit_horizontal: below the path in each of its columns.
cut_and_blit_horizontal(buffer, overlap, patch, path) ==
    {o \in Coords(patch.size, overlap) :
        \E i \in 1..Len(path) :
            /\ path[i][1] = o[1]
            /\ path[i][1] + patch.coords[1] < buffer.w
            /\ o[2] >= path[i][2] /\ o[2] < buffer.h}

\* cut_and_blit_corner writing the whole corner block.
cut_and_blit_corner_whole(overlap, hpath, vpath) == Coords(overlap, overlap)
\* cut_and_blit_corner.  hpath and vpath are the corner parts of the two
\* paths, which hold a point for every x and every y below overlap.
cut_and_blit_corner(overlap, hpath, vpath) ==
    {o \in Coords(overlap, overlap) :
        LET hpos == hpath[CHOOSE i \in 1..Len(hpath) : hpath[i][1] = o[1]]
            vpos == vpath[CHOOSE i \in 1..Len(vpath) : vpath[i][2] = o[2]]
        IN  o[2] >= hpos[2] /\ o[1] >= vpos[1]}

\* Vec::partition by a predicate on the points.
KeepFrom(path, axis, overlap) == SelectSeq(path, LAMBDA pt : pt[axis] >= overlap)

KeepBelow(path, axis, overlap) == SelectSeq(path, LAMBDA pt : pt[axis] < overlap)

ShiftAll(offsets, dx, dy) == {<<o[1] + dx, o[2] + dy>> : o \in offsets}

\* The closing blit_rect with the overlap taken off its size twice.
RestOfPatch_twice(patch_size, dx, dy) ==
    ShiftAll(RectOffsets(<<patch_size - 2 * dx, patch_size - 2 * dy>>), dx, dy)

\* The blit_rect that ends cut_and_blit_patch: the part of the patch from
\* offset (dx, dy) on.
RestOfPatch(patch_size, dx, dy) ==
    ShiftAll(RectOffsets(<<patch_size - dx, patch_size - dy>>), dx, dy)

\* cut_and_blit_patch: Ok(the offsets of the patch it writes), or the
\* panic of a seam lookup.
cut_and_blit_patch(buffer, patch_size, overlap, patch, err_surf, area) ==
    IF area = "Left"
    THEN Bind(minimum_cost_vertical_path(err_surf, overlap, patch_size),
              LAMBDA path :
                IF path.tag # "Ok" THEN path
                ELSE Ok(cut_and_blit_vertical(buffer, overlap, patch, path.val)
                        \cup RestOfPatch(patch_size, overlap, 0)))
    ELSE IF area = "Top"
    THEN Bind(minimum_cost_horizontal_path(err_surf, overlap, patch_size),
              LAMBDA path :
                IF path.tag # "Ok" THEN path
                ELSE Ok(cut_and_blit_horizontal(buffer, overlap, patch, path.val)
                        \cup RestOfPatch(patch_size, 0, overlap)))
    ELSE Bind(minimum_cost_vertical_path(err_surf, overlap, patch_size),
              LAMBDA vfull :
                IF vfull.tag # "Ok" THEN vfull
                ELSE Bind(minimum_cost_horizontal_path(err_surf, overlap, patch_size),
                          LAMBDA hfull :
                            IF hfull.tag # "Ok" THEN hfull
                            ELSE Ok(cut_and_blit_vertical(buffer, overlap, patch,
                                                          KeepFrom(vfull.val, 2, overlap))
                                    \cup cut_and_blit_horizontal(buffer, overlap, patch,
                                                                 KeepFrom(hfull.val, 1, overlap))
                                    \cup cut_and_blit_corner(overlap,
                                                             KeepBelow(hfull.val, 1, overlap),
                                                             KeepBelow(vfull.val, 2, overlap))
                                    \cup RestOfPatch(patch_size, overlap, overlap))))

----------------------------------------------------------------------------
(* Quilting: Quilter::quilt_image as a state machine                       *)

\* validate_params without the test of the seed patch.
validate_params_noseed(p, source_size) ==
    IF p.patch_size > source_size[1] \/ p.patch_size > source_size[2]
    THEN InvalidArguments("Patch size must be smaller than the image smallest dimension")
    ELSE Ok(<<>>)

validate_params(p, source_size) ==
    IF p.patch_size > source_size[1] \/ p.patch_size > source_size[2]
    THEN InvalidArguments("Patch size must be smaller than the image smallest dimension")
    ELSE IF /\ IsSome(p.seed_coords)
            /\ \/ Unwrap(p.seed_coords)[1] + p.patch_size > source_size[1]
               \/ Unwrap(p.seed_coords)[2] + p.patch_size > source_size[2]
    THEN InvalidArguments("Seed patch coordinates are out of bounds")
    ELSE Ok(<<>>)

Step(p) == p.patch_size - p.overlap

\* x_patches and y_patches of quilt_image.
PatchCount(length, step) ==
    IF length % step = 0 THEN length \div step ELSE length \div step + 1

GridSize(p) == <<PatchCount(p.size[1], Step(p)), PatchCount(p.size[2], Step(p))>>

Corner(p, no) == <<no[1] * Step(p), no[2] * Step(p)>>

\* The cells of the two for loops in their order; (0, 0) is skipped.
HasNextCell(p, no) == no[1] + 1 < GridSize(p)[1] \/ no[2] + 1 < GridSize(p)[2]

\* NextCell with the two loops exchanged: down the columns.
NextCell_columns(p, no) ==
    IF no[2] + 1 < GridSize(p)[2] THEN <<no[1], no[2] + 1>> ELSE <<no[1] + 1, 0>>
NextCell(p, no) ==
    IF no[1] + 1 < GridSize(p)[1] THEN <<no[1] + 1, no[2]>> ELSE <<0, no[2] + 1>>

\* The anchors select_candidate visits: 0..=max_x by 0..=max_y.
MaxAnchor(src, p) == <<src.w - p.patch_size, src.h - p.patch_size>>

\* select_candidate before its scan: current_best, candidates_scores, and for
\* each row y the x the scan of that row comes to next.
NewScan(src, p) ==
    [best |-> INFINITY, scores |-> <<>>,
     next |-> [y \in 0..MaxAnchor(src, p)[2] |-> 0]]

\* best * (1. + TOLERANCE), ten times.
Bound10(best) == 11 * best

\* The body both scans share: score the anchor, keep it when it is within
\* the tolerance of the best so far.
Evaluate(sc, src, buffer, p, no, x, y) ==
    LET patch == [coords |-> <<x, y>>, size |-> p.patch_size] IN
    Bind(patch_error(src, buffer, p.overlap, patch_overlap_area(no), patch, Corner(p, no)),
         LAMBDA error :
            IF 10 * error < Bound10(sc.best)
            THEN [sc EXCEPT !.best = IF error < sc.best THEN error ELSE sc.best,
                            !.scores = Append(sc.scores, <<patch, error>>)]
            ELSE sc)

Advance(sc, y) == [sc EXCEPT !.next[y] = sc.next[y] + 1]

RowLeft(sc, src, p, y) == sc.next[y] <= MaxAnchor(src, p)[1]

ScanDone(sc, src, p) == \A y \in DOMAIN sc.next : ~RowLeft(sc, src, p, y)

\* The filter_map after the scan.
Candidates(sc) ==
    {sc.scores[i][1] : i \in {j \in 1..Len(sc.scores) :
                                ~(10 * sc.scores[j][2] > Bound10(sc.best))}}

\* Closed01<f64>: a draw in [0, 1], in tenths.
Draws == 0..10

\* The test of line 279 on a draw d: the anchor is scored when it holds.
Considered(d, chance) == d > chance

Log(kind, no) == Append(trace, <<kind, no>>)

\* How far the source's width and height exceed patch_size in SpecQuilt.
XMargins == (0 - 1)..1

YMargins == (0 - 1)..1

QuiltSeeds == {None, Some(<<0, 0>>), Some(<<1, 0>>), Some(<<1, 1>>)}

\* The state after Quilter::new(source, params), params from QuilterParams::new.
InitQuilt ==
    /\ \E w \in 1..MaxOut, h \in 1..MaxOutHeight, ps \in 0..MaxPatch, ov \in 0..MaxOverlap,
          seed \in QuiltSeeds, chance \in {None, Some(5), Some(10)},
          kind \in {1, 2}, mx \in XMargins, my \in YMargins :
          LET made == QuilterParamsNew(<<w, h>>, ps, ov, seed, chance) IN
          /\ made.tag = "Ok"
          /\ params = made.val
          /\ source = Exemplar(kind, ps + mx, ps + my)
    /\ buffer_opt = None
    /\ pc = "start"
    /\ result = None /\ written = {} /\ patch_no = <<0, 0>> /\ scan = None
    /\ candidate = None /\ trace = <<>>
    /\ call = None /\ ret = None /\ build = "debug"
    /\ mask = None /\ n_pixels = 0 /\ seed_src = None /\ impl = "src/quilt.rs"

Abort(why) ==
    /\ pc' = "aborted"
    /\ result' = Some(why)

\* The working buffer as large as the output, without the margin of a patch.
BufferSize_nomargin(p) == <<p.size[1], p.size[2]>>

\* (buffer_width, buffer_height) of quilt_image.
BufferSize(p) == <<p.size[1] + p.patch_size, p.size[2] + p.patch_size>>

\* quilt_image up to the allocation of the buffer (lines 193-205).
QuiltValidate ==
    /\ pc = "start"
    /\ LET v == validate_params(params, <<source.w, source.h>>) IN
       IF v.tag = "Err"
       THEN /\ result' = Some(v)
            /\ pc' = "done"
            /\ UNCHANGED buffer_opt
       ELSE /\ buffer_opt' = Some(NewImage(BufferSize(params)[1], BufferSize(params)[2]))
            /\ pc' = "seed"
            /\ UNCHANGED result
    /\ UNCHANGED <<source, params, written, quiltVars, searchVars, ctorVars, build>>

\* After a cell is done: the next cell of the loops, or the end of them.
EnterNext(no) ==
    IF HasNextCell(params, no)
    THEN /\ patch_no' = NextCell(params, no)
         /\ scan' = Some(NewScan(source, params))
         /\ pc' = "select"
    ELSE /\ pc' = "crop"
         /\ scan' = None
         /\ UNCHANGED patch_no

\* The first patch (lines 207-215).  Range::new(low, high) asserts
\* low < high; ind_sample draws from [low, high).
QuiltSeed ==
    /\ pc = "seed"
    /\ LET max == MaxAnchor(source, params)
           ps == params.patch_size
       IN  IF max[1] = 0 \/ max[2] = 0
           THEN /\ Abort(Panic("Range::new called with low >= high"))
                /\ UNCHANGED <<buffer_opt, written, patch_no, scan, trace>>
           ELSE \E coords \in (IF IsSome(params.seed_coords)
                               THEN {Unwrap(params.seed_coords)}
                               ELSE (0..(max[1] - 1)) \X (0..(max[2] - 1))) :
                    /\ buffer_opt' = Some(blit_rect(Unwrap(buffer_opt), source,
                                                    [coords |-> coords, size |-> <<ps, ps>>],
                                                    <<0, 0>>))
                    /\ written' = RectOffsets(<<ps, ps>>)
                    /\ trace' = Log("blit", <<0, 0>>)
                    /\ EnterNext(<<0, 0>>)
                    /\ UNCHANGED result
    /\ UNCHANGED <<source, params, candidate, searchVars, ctorVars, build>>

\* The row the sequential scan of probabilistic mode is in.
CurrentRow(sc, src, p) ==
    CHOOSE y \in DOMAIN sc.next :
        /\ RowLeft(sc, src, p, y)
        /\ \A z \in DOMAIN sc.next : z < y => ~RowLeft(sc, src, p, z)

\* The end of one anchor of the probabilistic scan: the for loops go on,
\* or the while loop starts another pass, or it ends.
AfterDraw(sc) ==
    IF ~ScanDone(sc, source, params)
    THEN scan' = Some(sc) /\ pc' = "select"
    ELSE IF Len(sc.scores) = 0
    THEN scan' = Some([sc EXCEPT !.next = [y \in DOMAIN sc.next |-> 0]]) /\ pc' = "select"
    ELSE scan' = Some(sc) /\ pc' = "pick"

\* Probabilistic mode (lines 276-287), an anchor whose draw d is > chance:
\* it is evaluated.
SelectDrawEvaluate ==
    /\ pc = "select"
    /\ IsSome(params.selection_chance)
    /\ \E d \in Draws : Considered(d, Unwrap(params.selection_chance))
    /\ LET sc == Unwrap(scan)
           y == CurrentRow(sc, source, params)
       IN  \E sc2 \in {Advance(Evaluate(sc, source, Unwrap(buffer_opt), params, patch_no,
                                          sc.next[y], y), y)} : AfterDraw(sc2)
    /\ UNCHANGED <<source, params, buffer_opt, result, written, patch_no, candidate,
                   trace, searchVars, ctorVars, build>>

\* Probabilistic mode, an anchor whose draw d is not > chance: it is skipped.
SelectDrawSkip ==
    /\ pc = "select"
    /\ IsSome(params.selection_chance)
    /\ \E d \in Draws : ~Considered(d, Unwrap(params.selection_chance))
    /\ LET sc == Unwrap(scan)
           y == CurrentRow(sc, source, params)
       IN  \E sc2 \in {Advance(sc, y)} : AfterDraw(sc2)
    /\ UNCHANGED <<source, params, buffer_opt, result, written, patch_no, candidate,
                   trace, searchVars, ctorVars, build>>

\* Exhaustive mode (lines 292-303): the worker of row y takes both locks and
\* handles its next anchor.  Rows run in parallel, in any interleaving.
SelectEval(y) ==
    /\ pc = "select"
    /\ params.selection_chance = None
    /\ y \in DOMAIN Unwrap(scan).next
    /\ RowLeft(Unwrap(scan), source, params, y)
    /\ LET sc == Unwrap(scan) IN
       \E sc2 \in {Advance(Evaluate(sc, source, Unwrap(buffer_opt), params, patch_no,
                                      sc.next[y], y), y)} :
           /\ scan' = Some(sc2)
           /\ pc' = IF ScanDone(sc2, source, params) THEN "pick" ELSE "select"
    /\ UNCHANGED <<source, params, buffer_opt, result, written, patch_no, candidate,
                   trace, searchVars, ctorVars, build>>

\* The end of select_candidate (lines 305-310): filter, shuffle, first().
SelectPick ==
    /\ pc = "pick"
    /\ LET cands == Candidates(Unwrap(scan)) IN
       IF cands = {}
       THEN /\ Abort(Panic("called Option::unwrap() on a None value"))
            /\ UNCHANGED <<candidate, trace, scan>>
       ELSE \E c \in cands :
                /\ candidate' = Some(c)
                /\ trace' = Log("select", patch_no)
                /\ scan' = Some([Unwrap(scan) EXCEPT !.scores = <<>>])
                /\ pc' = "blit"
                /\ UNCHANGED result
    /\ UNCHANGED <<source, params, buffer_opt, written, patch_no, searchVars, ctorVars, build>>

\* patch_error_surface and cut_and_blit_patch for the picked candidate
\* (lines 223-224).
QuiltBlitPatch ==
    /\ pc = "blit"
    /\ LET buffer == Unwrap(buffer_opt)
           patch == Unwrap(candidate)
           area == patch_overlap_area(patch_no)
           corner == Corner(params, patch_no)
           err_surf == patch_error_surface(source, buffer, params.patch_size, params.overlap,
                                           area, patch, corner)
       IN  \E cut \in {cut_and_blit_patch(buffer, params.patch_size, params.overlap,
                                          patch, err_surf, area)} :
           IF cut.tag # "Ok"
           THEN /\ Abort(cut)
                /\ UNCHANGED <<buffer_opt, written, patch_no, scan, trace>>
           ELSE IF ~PutFromInBounds(buffer, source, patch.coords, corner, cut.val)
           THEN /\ Abort(Panic("Image index out of bounds"))
                /\ UNCHANGED <<buffer_opt, written, patch_no, scan, trace>>
           ELSE /\ buffer_opt' = Some(PutFrom(buffer, source, patch.coords, corner, cut.val))
                /\ written' = written \cup ShiftAll(cut.val, corner[1], corner[2])
                /\ trace' = Log("blit", patch_no)
                /\ EnterNext(patch_no)
                /\ UNCHANGED result
    /\ candidate' = None
    /\ UNCHANGED <<source, params, searchVars, ctorVars, build>>

\* sub_image(x, y, w, h).to_image()
SubImage(img, x, y, w, h) ==
    [w |-> w, h |-> h, px |-> [c \in Coords(w, h) |-> img.px[<<c[1] + x, c[2] + y>>]]]

\* The end of quilt_image (lines 230-231).
QuiltReturn ==
    /\ pc = "crop"
    /\ result' = Some(Ok(SubImage(Unwrap(buffer_opt), 0, 0, params.size[1], params.size[2])))
    /\ buffer_opt' = None
    /\ pc' = "done"
    /\ UNCHANGED <<source, params, written, quiltVars, searchVars, ctorVars, build>>

NextQuilt ==
    \/ QuiltValidate
    \/ QuiltSeed
    \/ SelectDrawEvaluate
    \/ SelectDrawSkip
    \/ \E y \in 0..(MaxPatch + 2) : SelectEval(y)
    \/ SelectPick
    \/ QuiltBlitPatch
    \/ QuiltReturn

SpecQuilt == InitQuilt /\ [][NextQuilt]_vars

\* Probabilistic mode on its own: the runs of quilt_image with a
\* selection_chance, for outputs of at most two patches a side.
InitSampling ==
    /\ InitQuilt
    /\ IsSome(params.selection_chance)
    /\ params.size[1] <= MaxOutHeight

NextSampling ==
    \/ QuiltValidate
    \/ QuiltSeed
    \/ SelectDrawEvaluate
    \/ SelectDrawSkip
    \/ SelectPick
    \/ QuiltBlitPatch
    \/ QuiltReturn

\* Fair random draws: an anchor's draw comes out on either side of chance
\* again and again, when that side stays possible.
FairSpecSampling ==
    /\ InitSampling
    /\ [][NextSampling]_vars
    /\ SF_vars(SelectDrawEvaluate)
    /\ SF_vars(SelectDrawSkip)

----------------------------------------------------------------------------
(* Claims about quilt_image                                                *)

\* The conditions validate_params is documented to refuse.
PatchTooLarge == params.patch_size > source.w \/ params.patch_size > source.h

SeedOutside ==
    /\ IsSome(params.seed_coords)
    /\ \/ Unwrap(params.seed_coords)[1] + params.patch_size > source.w
       \/ Unwrap(params.seed_coords)[2] + params.patch_size > source.h

\* C3: whenever patch_size exceeds the source width or height, or the seed
\* patch does not fit, quilt_image returns an InvalidArguments error with
\* buffer_opt still None and no candidate search or blit done.
C3_FailFast ==
    ((PatchTooLarge \/ SeedOutside) /\ pc # "start") =>
        /\ pc = "done"
        /\ IsSome(result)
        /\ Unwrap(result).tag = "Err" /\ Unwrap(result).kind = "InvalidArguments"
        /\ buffer_opt = None
        /\ trace = <<>> /\ written = {} /\ scan = None /\ candidate = None

\* C3's case: the patch fits the source but the seed patch does not, and
\* quilt_image has returned.
C3_Witness ==
    /\ pc = "done"
    /\ ~PatchTooLarge /\ SeedOutside
    /\ Unwrap(result).tag = "Err"
    /\ buffer_opt = None

\* C4: for a source at least patch_size wide and high (equality included)
\* whose seed patch fits, quilt_image passes validation and does not abort
\* while it chooses and places the seed patch.
C4_SeedPlaced ==
    (~PatchTooLarge /\ ~SeedOutside) =>
        /\ ~(IsSome(result) /\ Unwrap(result).tag = "Err")
        /\ ~(pc = "aborted" /\ trace = <<>>)

\* C5: when quilt_image returns Ok, the image has the requested width and
\* height, and every pixel of it was written from the source.
C5_OutputCovered ==
    (pc = "done" /\ IsSome(result) /\ Unwrap(result).tag = "Ok") =>
        LET quilt == Unwrap(result).val IN
        /\ quilt.w = params.size[1] /\ quilt.h = params.size[2]
        /\ DOMAIN quilt.px = Coords(params.size[1], params.size[2])
        /\ Coords(quilt.w, quilt.h) \subseteq written
        /\ \A c \in DOMAIN quilt.px : \E s \in DOMAIN source.px : quilt.px[c] = source.px[s]

\* C5's case: an image wider than the seed patch was returned after three
\* patches of the first row were placed.
C5_Witness ==
    /\ pc = "done" /\ Unwrap(result).tag = "Ok"
    /\ params.size[1] > params.patch_size
    /\ \E i \in 1..Len(trace) : trace[i] = <<"blit", <<2, 0>>>>

\* The error select_candidate computes for the anchor c of the current cell.
AnchorError(c) ==
    patch_error(source, Unwrap(buffer_opt), params.overlap, patch_overlap_area(patch_no),
                [coords |-> c, size |-> params.patch_size], Corner(params, patch_no))

\* C12: when the scan of select_candidate is over, the pool it picks from is
\* exactly the evaluated anchors whose error is at most 1.1 times the least
\* error of an evaluated anchor, ties at the least error and a least error
\* of 0 included.  Exhaustive mode evaluates every anchor.
C12_PoolIsTolerated ==
    (pc = "pick" /\ params.selection_chance = None) =>
        LET anchors == (0..MaxAnchor(source, params)[1]) \X (0..MaxAnchor(source, params)[2])
            final_best == CHOOSE b \in {AnchorError(c) : c \in anchors} :
                              \A c \in anchors : b <= AnchorError(c)
        IN  {p.coords : p \in Candidates(Unwrap(scan))}
                = {c \in anchors : 10 * AnchorError(c) <= 11 * final_best}

\* C10: in probabilistic mode, for every selection_chance in (0, 1], the
\* sampling loop of select_candidate ends under fair draws, with a candidate
\* kept.
C10_SamplingEnds ==
    (pc = "select" /\ IsSome(params.selection_chance))
        ~> (pc = "pick" /\ Len(Unwrap(scan).scores) > 0)

----------------------------------------------------------------------------
(* Pixel search: PixelSearch::synthesize as a state machine                *)
(*                                                                         *)
(* The two copies differ in one place, the y coordinate the seed block is  *)
(* copied to.  The mask is an image of one-channel pixels, written here as *)
(* numbers.  The model draws outputs of at least 3x3, where the seed       *)
(* rectangle lies inside the mask, and sources of at least 4x4.            *)

\* The square root of a perfect square.
Sqrt(n) == CHOOSE r \in 0..n : r * r = n

\* The l2 of search.rs
l2(p1, p2) ==
    LET f(c1, c2) == (c1 - c2) * (c1 - c2) IN
    Sqrt(f(p1[1], p2[1]) + f(p1[2], p2[2]) + f(p1[3], p2[3]))

\* GrayImage::new
NewMask(w, h) == [w |-> w, h |-> h, px |-> [c \in Coords(w, h) |-> 0]]

mask_on(m, x, y) == m.px[<<x, y>>] # 0

is_edge_pixel(m, x, y) ==
    \/ (x # 0 /\ mask_on(m, x - 1, y))
    \/ (x # m.w - 1 /\ mask_on(m, x + 1, y))
    \/ (y # 0 /\ mask_on(m, x, y - 1))
    \/ (y # m.h - 1 /\ mask_on(m, x, y + 1))

\* Where the mask marks the seed: (w / 2 - 1, h / 2 - 1).
MaskSeedCorner(size) == <<size[1] \div 2 - 1, size[2] \div 2 - 1>>

\* Where blit_rect puts the seed block.
BlitSeedCorner(size, version) ==
    IF version = "src/quilt.rs"
    THEN <<size[1] \div 2 - 1, size[1] \div 2 - 1>>
    ELSE <<size[1] \div 2 - 1, size[2] \div 2 - 1>>

\* pixel_num_neigbours: Ok(the count), or the panic of a get_pixel below the
\* last row of the mask.
pixel_num_neigbours(m, window_size, coords) ==
    LET d == (window_size - 1) \div 2
        xs == IF coords[1] <= d THEN 0 ELSE coords[1] - d
        ys == IF coords[2] <= d THEN 0 ELSE coords[2] - d
        xe == Min(m.w - 1, coords[1] + d) + 1
        ye == Min(m.w - 1, coords[2] + d) + 1
        read == {c \in (xs..(xe - 1)) \X (ys..(ye - 1)) : c # coords}
    IN  IF \E c \in read : ~InImage(m, c[1], c[2])
        THEN Panic("Image index out of bounds")
        ELSE Ok(Cardinality({c \in read : m.px[c] # 0}))

\* The offsets (x, y) the two loops of neighbourhood_error go through.
neighbourhood_window(src, m, window_size, pixel, neighbourhood) ==
    LET d == (window_size - 1) \div 2
        xs == Min(Min(d, pixel[1]), Min(d, neighbourhood[1]))
        ys == Min(Min(d, pixel[2]), Min(d, neighbourhood[2]))
        xe == Min(Min(d, src.w - neighbourhood[1] - 1), Min(d, m.w - pixel[1] - 1))
        ye == Min(Min(d, src.h - neighbourhood[2] - 1), Min(d, m.h - pixel[2] - 1))
    IN  ((0 - xs)..xe) \X ((0 - ys)..ye)

\* neighbourhood_error with i counting every position of the window.
neighbourhood_error_all(src, buffer, m, window_size, pixel, neighbourhood) ==
    LET all == neighbourhood_window(src, m, window_size, pixel, neighbourhood)
        dist == [o \in all |-> l2(src.px[<<neighbourhood[1] + o[1], neighbourhood[2] + o[2]>>],
                                  buffer.px[<<pixel[1] + o[1], pixel[2] + o[2]>>])]
    IN  IF all = {} THEN None ELSE Some(<<SumOver(dist, all), Cardinality(all)>>)
\* neighbourhood_error: None, or Some(<<error, i>>) for the f64 error / i.
neighbourhood_error(src, buffer, m, window_size, pixel, neighbourhood) ==
    LET d == (window_size - 1) \div 2
        px == pixel[1]
        py == pixel[2]
        nx == neighbourhood[1]
        ny == neighbourhood[2]
        on == {o \in neighbourhood_window(src, m, window_size, pixel, neighbourhood) :
                  mask_on(m, px + o[1], py + o[2])}
        dist == [o \in on |-> l2(src.px[<<nx + o[1], ny + o[2]>>],
                                 buffer.px[<<px + o[1], py + o[2]>>])]
    IN  IF on = {} THEN None ELSE Some(<<SumOver(dist, on), Cardinality(on)>>)

\* a <= 1.1 * b for the f64 values a[1] / a[2] and b[1] / b[2].
WithinBound(a, b) == 10 * a[1] * b[2] <= 11 * b[1] * a[2]

\* a <= b likewise.
NoMore(a, b) == a[1] * b[2] <= b[1] * a[2]

\* synthesize_pixel without the take_while: every source pixel that has an
\* error.
synthesize_pixel_unbounded(src, buffer, m, window_size, coords) ==
    Bind({<<c, neighbourhood_error(src, buffer, m, window_size, coords, c)>> :
              c \in Coords(src.w, src.h)},
         LAMBDA all :
            LET errors == {e \in all : IsSome(e[2])} IN
            IF errors = {}
            THEN Panic("index out of bounds: the len is 0 but the index is 0")
            ELSE Ok({e[1] : e \in errors}))
\* synthesize_pixel: Ok(the source coordinates the shuffle can leave last),
\* or the panic of errors[0] on an empty list.
synthesize_pixel(src, buffer, m, window_size, coords) ==
    Bind({<<c, neighbourhood_error(src, buffer, m, window_size, coords, c)>> :
              c \in Coords(src.w, src.h)},
         LAMBDA all :
            LET errors == {e \in all : IsSome(e[2])} IN
            IF errors = {}
            THEN Panic("index out of bounds: the len is 0 but the index is 0")
            ELSE LET first == CHOOSE e \in errors :
                                 \A o \in errors : NoMore(Unwrap(e[2]), Unwrap(o[2]))
                 IN  Ok({e[1] : e \in {o \in errors :
                                          WithinBound(Unwrap(o[2]), Unwrap(first[2]))}}))

\* mask.put_pixel writing Luma 0, which leaves the cell unfilled.
MarkDone_zero(m, c) == [m EXCEPT !.px[c] = 0]

\* mask.put_pixel(next_pixel.0, next_pixel.1, Luma { data: [1] })
MarkDone(m, c) == [m EXCEPT !.px[c] = 1]

\* The filter_map and map of the search for next_pixel.
EdgePixels(m, window_size) ==
    {<<c, pixel_num_neigbours(m, window_size, c)>> :
        c \in {e \in Coords(m.w, m.h) : m.px[e] = 0 /\ is_edge_pixel(m, e[1], e[2])}}

SearchSeeds == {None, Some(<<0, 0>>), Some(<<1, 1>>)}

\* The state after PixelSearch::new(source, params), params from
\* PixelSearchParams::new.
InitSearch ==
    /\ \E w \in 0..MaxSearchOut, h \in 0..MaxSearchOut, ws \in 1..MaxSearchWindow,
          seed \in SearchSeeds, kind \in {1, 2}, sw \in 4..MaxSrc, sh \in 4..MaxSrc :
          LET made == PixelSearchParamsNew(<<w, h>>, ws, seed) IN
          /\ made.tag = "Ok"
          /\ PixelSearchNew(sw, sh, made.val, "debug").tag = "Ok"
          /\ params = made.val
          /\ source = Exemplar(kind, sw, sh)
    /\ impl \in {"src/quilt.rs", "search.rs"}
    /\ buffer_opt = None
    /\ pc = "start"
    /\ result = None /\ written = {} /\ patch_no = <<0, 0>> /\ scan = None
    /\ candidate = None /\ trace = <<>>
    /\ call = None /\ ret = None /\ build = "debug"
    /\ mask = None /\ n_pixels = 0 /\ seed_src = None

\* random::<u32>() % (length - 3) for a side of the source: the panic of the
\* subtraction or of the remainder in a debug build, or None.
SeedDrawPanic(length) ==
    IF length < 3 THEN Some(Panic("attempt to subtract with overflow"))
    ELSE IF length = 3
    THEN Some(Panic("attempt to calculate the remainder with a divisor of zero"))
    ELSE None

\* The blit_rect of the seed block, as [img, cells, ok].  The copy of
\* src/quilt.rs puts pixel by pixel and keeps what it put before a panic, in
\* either build of the image buffer; the copy of search.rs takes the two
\* sub-images first, which fails as a whole when the block does not fit.
SeedBlits(buffer, src, from, at, version) ==
    IF version = "src/quilt.rs"
    THEN {BlitPixels([img |-> buffer, cells |-> {}, ok |-> TRUE], src, from, at,
                     BlitOrder(<<3, 3>>), checked) : checked \in BOOLEAN}
    ELSE IF PutFromInBounds(buffer, src, from, at, RectOffsets(<<3, 3>>))
    THEN {[img |-> blit_rect(buffer, src, [coords |-> from, size |-> <<3, 3>>], at),
           cells |-> ShiftAll(RectOffsets(<<3, 3>>), at[1], at[2]),
           ok |-> TRUE]}
    ELSE {[img |-> buffer, cells |-> {}, ok |-> FALSE]}

\* synthesize up to its loop: the buffer, the mask and its seed, the seed
\* block, the count of the pixels left.  The copy of search.rs takes the
\* 3x3 sub-image of the mask before it draws (sx, sy) and panics there when
\* the block does not fit; draw_filled_rect_mut of the copy of src/quilt.rs
\* marks the part of the block inside the mask.
SearchSeed ==
    /\ pc = "start"
    /\ LET size == params.size
           seeded == ShiftAll(RectOffsets(<<3, 3>>), MaskSeedCorner(size)[1],
                              MaskSeedCorner(size)[2])
           m == [NewMask(size[1], size[2]) EXCEPT
                    !.px = [c \in Coords(size[1], size[2]) |->
                                IF c \in seeded THEN 255 ELSE 0]]
           buffer == NewImage(size[1], size[2])
           at == BlitSeedCorner(size, impl)
       IN  IF size[1] \div 2 = 0 \/ size[2] \div 2 = 0
           THEN /\ Abort(Panic("attempt to subtract with overflow"))
                /\ buffer_opt' = Some(buffer)
                /\ UNCHANGED <<mask, n_pixels, seed_src, written>>
           ELSE IF impl = "search.rs" /\ ~(seeded \subseteq Coords(size[1], size[2]))
           THEN /\ Abort(Panic("Image index out of bounds"))
                /\ buffer_opt' = Some(buffer)
                /\ UNCHANGED <<mask, n_pixels, seed_src, written>>
           ELSE IF SeedDrawPanic(source.w) # None \/ SeedDrawPanic(source.h) # None
           THEN /\ Abort(Unwrap(IF SeedDrawPanic(source.w) # None
                                THEN SeedDrawPanic(source.w) ELSE SeedDrawPanic(source.h)))
                /\ buffer_opt' = Some(buffer)
                /\ UNCHANGED <<mask, n_pixels, seed_src, written>>
           ELSE \E sx \in 0..(source.w - 4), sy \in 0..(source.h - 4) :
                \E done \in SeedBlits(buffer, source, <<sx, sy>>, at, impl) :
                IF ~done.ok
                THEN /\ Abort(Panic("Image index out of bounds"))
                     /\ buffer_opt' = Some(done.img)
                     /\ mask' = Some(m)
                     /\ seed_src' = Some(<<sx, sy>>)
                     /\ written' = done.cells
                     /\ UNCHANGED n_pixels
                ELSE /\ buffer_opt' = Some(done.img)
                     /\ mask' = Some(m)
                     /\ seed_src' = Some(<<sx, sy>>)
                     /\ written' = done.cells
                     /\ n_pixels' = Cardinality({c \in DOMAIN m.px : m.px[c] = 0})
                     /\ pc' = "grow"
                     /\ UNCHANGED result
    /\ UNCHANGED <<source, params, quiltVars, ctorVars, build, impl>>

\* One turn of the while loop: next_pixel, synthesize_pixel, the two
\* put_pixel, the counter.  max_by_key of a parallel iterator: any of the
\* edge pixels with the most neighbours.
SearchGrow ==
    /\ pc = "grow"
    /\ n_pixels > 0
    /\ LET m == Unwrap(mask)
           buffer == Unwrap(buffer_opt)
       IN  \E edge \in {EdgePixels(m, params.window_size)} :
           IF \E e \in edge : e[2].tag # "Ok"
           THEN /\ Abort((CHOOSE e \in edge : e[2].tag # "Ok")[2])
                /\ UNCHANGED <<buffer_opt, mask, n_pixels, written>>
           ELSE IF edge = {}
           THEN /\ Abort(Panic(":'("))
                /\ UNCHANGED <<buffer_opt, mask, n_pixels, written>>
           ELSE \E next \in {e \in edge : \A o \in edge : o[2].val <= e[2].val} :
                \E pool \in {synthesize_pixel(source, buffer, m, params.window_size, next[1])} :
                IF pool.tag # "Ok"
                THEN /\ Abort(pool)
                     /\ UNCHANGED <<buffer_opt, mask, n_pixels, written>>
                ELSE \E from \in pool.val :
                     /\ buffer_opt' = Some([buffer EXCEPT !.px[next[1]] = source.px[from]])
                     /\ mask' = Some(MarkDone(m, next[1]))
                     /\ n_pixels' = n_pixels - 1
                     /\ written' = written \cup {next[1]}
                     /\ UNCHANGED <<pc, result>>
    /\ UNCHANGED <<source, params, quiltVars, ctorVars, build, seed_src, impl>>

\* The end of synthesize: buffer_opt.take().unwrap().
SearchReturn ==
    /\ pc = "grow"
    /\ n_pixels = 0
    /\ result' = Some(Ok(Unwrap(buffer_opt)))
    /\ buffer_opt' = None
    /\ pc' = "done"
    /\ UNCHANGED <<source, params, written, quiltVars, ctorVars, build, mask, n_pixels,
                   seed_src, impl>>

NextSearch ==
    \/ SearchSeed
    \/ SearchGrow
    \/ SearchReturn

SpecSearch == InitSearch /\ [][NextSearch]_vars

----------------------------------------------------------------------------
(* Claims about PixelSearch::synthesize                                    *)

\* C6: for an output of at least 3x3, a source of at least 4x4 and an odd
\* window_size, the synthesize of search.rs does not abort, and n_pixels is
\* the number of unfilled mask cells, so that it returns with every mask
\* cell filled.
C6_SynthesizeCompletes ==
    ( /\ impl = "search.rs"
      /\ params.size[1] >= 3 /\ params.size[2] >= 3
      /\ source.w >= 4 /\ source.h >= 4
      /\ params.window_size % 2 = 1 ) =>
        /\ pc # "aborted"
        /\ pc \in {"grow", "done"} =>
              n_pixels = Cardinality({c \in DOMAIN Unwrap(mask).px : Unwrap(mask).px[c] = 0})

\* C7: every cell the mask marks filled holds a pixel copied from the
\* source (the nine seed cells of the mask are the nine cells the seed block
\* was copied to), and when synthesize returns every cell does.
C7_FilledFromSource ==
    (pc \in {"grow", "done"}) =>
        /\ \A c \in DOMAIN Unwrap(mask).px : Unwrap(mask).px[c] # 0 => c \in written
        /\ pc = "done" => Coords(params.size[1], params.size[2]) \subseteq written

\* C9: when seed_coords is Some((sx, sy)), the synthesize of search.rs reads
\* the seed block from the source at (sx, sy).
C9_SeedCoordsUsed ==
    (impl = "search.rs" /\ pc \in {"grow", "done"} /\ IsSome(params.seed_coords)) =>
        seed_src = params.seed_coords

----------------------------------------------------------------------------
(* SpecParams: the constructors applied to bounded inputs                  *)

QuilterParamsCalls ==
    {<<"QuilterParams::new", <<w, h>>, ps, ov, seed, chance>> :
        w \in 0..MaxOut, h \in 0..MaxOutHeight, ps \in 0..MaxPatch, ov \in 0..MaxOverlap,
        seed \in {None, Some(<<0, 0>>), Some(<<MaxSeed, 1>>)}, chance \in Chances}

PixelSearchParamsCalls ==
    {<<"PixelSearchParams::new", <<w, h>>, ws, seed>> :
        w \in 0..MaxOut, h \in 0..MaxOutHeight, ws \in 0..MaxWindow, seed \in SeedOptions}

\* PixelSearch::new takes a PixelSearchParams, which only
\* PixelSearchParams::new makes.
PixelSearchCalls ==
    {<<"PixelSearch::new", sw, sh, PixelSearchParamsNew(<<MaxOut, MaxOutHeight>>, ws, seed).val>> :
        sw \in 0..MaxSrc, sh \in 0..MaxSrc, ws \in {1, 3}, seed \in SeedOptions}

Idle ==
    /\ source = None /\ params = None /\ buffer_opt = None /\ pc = "idle"
    /\ result = None /\ written = {} /\ patch_no = <<0, 0>> /\ scan = None
    /\ candidate = None /\ trace = <<>> /\ mask = None /\ n_pixels = 0
    /\ seed_src = None /\ impl = "search.rs"

InitParams ==
    /\ call \in QuilterParamsCalls \cup PixelSearchParamsCalls \cup PixelSearchCalls
    /\ ret = None
    /\ build \in Builds
    /\ Idle

CallQuilterParamsNew ==
    /\ ret = None
    /\ call[1] = "QuilterParams::new"
    /\ ret' = Some(QuilterParamsNew(call[2], call[3], call[4], call[5], call[6]))
    /\ UNCHANGED <<call, build, genVars, quiltVars, searchVars>>

CallPixelSearchParamsNew ==
    /\ ret = None
    /\ call[1] = "PixelSearchParams::new"
    /\ ret' = Some(PixelSearchParamsNew(call[2], call[3], call[4]))
    /\ UNCHANGED <<call, build, genVars, quiltVars, searchVars>>

CallPixelSearchNew ==
    /\ ret = None
    /\ call[1] = "PixelSearch::new"
    /\ ret' = Some(PixelSearchNew(call[2], call[3], call[4], build))
    /\ UNCHANGED <<call, build, genVars, quiltVars, searchVars>>

NextParams ==
    \/ CallQuilterParamsNew
    \/ CallPixelSearchParamsNew
    \/ CallPixelSearchNew

SpecParams == InitParams /\ [][NextParams]_vars

----------------------------------------------------------------------------
(* Claims about the constructors                                           *)

Returned(fn) == call[1] = fn /\ ret # None

\* C1: QuilterParams::new returns Ok for every input with both output
\* dimensions non-zero, overlap >= 1, patch_size >= 2 * overlap and
\* selection_chance absent or > 0, and an InvalidArguments error whenever an
\* output dimension is 0, or overlap is 0, or patch_size < 2 * overlap.
C1_QuilterParamsNew ==
    Returned("QuilterParams::new") =>
        LET size == call[2]
            patch_size == call[3]
            overlap == call[4]
            chance == call[6]
            r == Unwrap(ret)
        IN  /\ ( /\ size[1] # 0 /\ size[2] # 0
                 /\ overlap >= 1
                 /\ patch_size >= 2 * overlap
                 /\ (chance = None \/ Unwrap(chance) > 0) )
               => ( /\ r.tag = "Ok"
                    /\ r.val.size = size /\ r.val.patch_size = patch_size
                    /\ r.val.overlap = overlap )
            /\ (size[1] = 0 \/ size[2] = 0 \/ overlap = 0 \/ patch_size < 2 * overlap)
               => (r.tag = "Err" /\ r.kind = "InvalidArguments")

\* C1's case: a call with patch_size exactly 2 * overlap and a
\* selection_chance of 0.5 has returned Ok.
C1_Witness ==
    /\ Returned("QuilterParams::new")
    /\ call[4] = 2 /\ call[3] = 4 /\ call[6] = Some(5)
    /\ Unwrap(ret).tag = "Ok"

\* C2: PixelSearchParams::new returns Ok for every odd window_size and an
\* InvalidArguments error for every even one (0 included), whatever size and
\* seed_coords are.
C2_PixelSearchParamsNew ==
    Returned("PixelSearchParams::new") =>
        LET window_size == call[3]
            r == Unwrap(ret)
        IN  /\ (window_size % 2 = 1) =>
                (r.tag = "Ok" /\ r.val.window_size = window_size
                              /\ r.val.size = call[2] /\ r.val.seed_coords = call[4])
            /\ (window_size % 2 = 0) => (r.tag = "Err" /\ r.kind = "InvalidArguments")

\* C2's case: window_size 0 was refused although size and seed are fine.
C2_Witness ==
    /\ Returned("PixelSearchParams::new")
    /\ call[3] = 0 /\ call[2] = <<3, 3>> /\ call[4] = None
    /\ Unwrap(ret).tag = "Err"

\* C8: PixelSearch::new returns an InvalidArguments error exactly when
\* seed_coords is given and the 3x3 block at seed_coords does not lie inside
\* the source (seed_x + 3 > width or seed_y + 3 > height), and Ok otherwise.
C8_PixelSearchNew ==
    Returned("PixelSearch::new") =>
        LET src_w == call[2]
            src_h == call[3]
            seed == call[4].seed_coords
            r == Unwrap(ret)
            outside == /\ IsSome(seed)
                       /\ (Unwrap(seed)[1] + 3 > src_w \/ Unwrap(seed)[2] + 3 > src_h)
        IN  IF outside THEN r.tag = "Err" /\ r.kind = "InvalidArguments"
                       ELSE r.tag = "Ok"

----------------------------------------------------------------------------
(* SpecKernels: the functions of the two generators, each applied to       *)
(* inputs drawn from bounded sets                                          *)

\* Neighbourhood: elems is an Array2 indexed [[row, col]] from 0, of
\* "On" and "Off"; reference is (x, y).  Image2D and its sub_image are of
\* the ndimage crate: the model takes sub_image(x, y, w, h) to be the w by h
\* region at (x, y), iterated row by row as from_vec lays it out.
NewNeighbourhood(rows, cols, off, reference) ==
    [rows |-> rows, cols |-> cols, reference |-> reference,
     elems |-> [e \in (0..(rows - 1)) \X (0..(cols - 1)) |->
                   IF e \in off THEN "Off" ELSE "On"]]

\* The pixels of pixels whose element of elems is On, in order.
RECURSIVE UnderOn(_, _)
UnderOn(elems, pixels) ==
    IF elems = <<>> THEN <<>>
    ELSE (IF Head(elems) = "On" THEN <<Head(pixels)>> ELSE <<>>)
         \o UnderOn(Tail(elems), Tail(pixels))

\* image_iter collected into a Vec.  The slice of elems takes the x range
\* on axis 0 and the y range on axis 1; a slice beyond an axis panics.
image_iter(nb, img, img_ref) ==
    LET x_left == IF img_ref[1] < nb.reference[1] THEN nb.reference[1] - img_ref[1] ELSE 0
        x == IF img_ref[1] < nb.reference[1] THEN 0 ELSE img_ref[1] - nb.reference[1]
        y_top == IF img_ref[2] < nb.reference[2] THEN nb.reference[2] - img_ref[2] ELSE 0
        y == IF img_ref[2] < nb.reference[2] THEN 0 ELSE img_ref[2] - nb.reference[2]
        x_right == IF img_ref[1] + nb.cols > img.w THEN img_ref[1] + nb.cols - img.w ELSE 0
        y_bottom == IF img_ref[2] + nb.rows > img.h THEN img_ref[2] + nb.rows - img.h ELSE 0
        w == IF x_left + x_right > nb.cols THEN 0 ELSE nb.cols - (x_left + x_right)
        h == IF y_top + y_bottom > nb.rows THEN 0 ELSE nb.rows - (y_top + y_bottom)
        elems == [k \in 1..(w * h) |->
                     nb.elems[<<x_left + ((k - 1) \div h), y_top + ((k - 1) % h)>>]]
        pixels == [k \in 1..(w * h) |-> img.px[<<x + ((k - 1) % w), y + ((k - 1) \div w)>>]]
    IN  IF x_left + w > nb.rows \/ y_top + h > nb.cols
        THEN Panic("ndarray: slice out of bounds")
        ELSE Ok(UnderOn(elems, pixels))

\* Side of the square image of the image_iter calls.
IterSide == 5

\* Image2D::from_vec(w, h, (0..w * h).map(Luma::from)).
LumaImage(w, h) == [w |-> w, h |-> h, px |-> [c \in Coords(w, h) |-> c[2] * w + c[1]]]

\* The neighbourhood of tests::test_neighbourhood_iterator, the full 3 by 3
\* one and one with a single element off.
Neighbourhoods ==
    {NewNeighbourhood(3, 3, off, <<1, 1>>) :
        off \in {{<<1, 2>>, <<2, 1>>, <<2, 2>>}, {}, {<<0, 2>>}}}

IterCalls ==
    {<<"image_iter", nb, LumaImage(IterSide, IterSide), img_ref>> :
        nb \in Neighbourhoods, img_ref \in Coords(IterSide, IterSide)}

\* One anchor of a pass of probabilistic mode: the draw d and the
\* selection_chance, in tenths.
DrawCalls == {<<"select_candidate::draw", d, chance>> : d \in Draws, chance \in 1..10}

\* The grid cells (patch_x, patch_y) of the two loops of quilt_image.
MaxGrid == 3

AreaCalls == {<<"patch_overlap_area", patch_x, patch_y>> :
                 patch_x \in 0..MaxGrid, patch_y \in 0..MaxGrid} \ {<<"patch_overlap_area", 0, 0>>}

\* Side of the square images of the calls, and the largest rectangle side.
KernelSide == 4

MaxRect == 3

\* An image whose pixels all differ, with three non-zero channels.
Ramp(w, h) ==
    [w |-> w, h |-> h,
     px |-> [c \in Coords(w, h) |-> <<c[1] + w * c[2], 2 * c[1], c[2] + 1>>]]

\* img with the pixels of edits (a function from cells to pixels) put.
WithPixels(img, edits) ==
    [img EXCEPT !.px = [c \in DOMAIN img.px |->
                           IF c \in DOMAIN edits THEN edits[c] ELSE img.px[c]]]

\* i1 and i2 of tests::test_patch_rect_error.
TestI1 ==
    WithPixels(NewImage(11, 11),
               (<<3, 3>> :> <<7, 7, 7>>) @@ (<<4, 4>> :> <<20, 20, 20>>)
               @@ (<<6, 6>> :> <<20, 20, 20>>) @@ (<<5, 7>> :> <<7, 7, 7>>)
               @@ (<<7, 5>> :> <<7, 7, 7>>))

TestI2 == NewImage(11, 11)

RectErrorCalls ==
    {<<"patch_rect_error", i1, i2, c1, c2, size>> :
        i1 \in {Ramp(KernelSide, KernelSide), Exemplar(1, KernelSide, KernelSide),
                Exemplar(2, KernelSide, KernelSide)},
        i2 \in {NewImage(KernelSide, KernelSide), Exemplar(2, KernelSide, KernelSide)},
        c1 \in (0..2) \X (0..2), c2 \in (0..2) \X (0..2),
        size \in (0..MaxRect) \X (0..MaxRect)}
    \cup {<<"patch_rect_error", TestI1, TestI2, <<4, 4>>, <<0, 0>>, <<3, 3>>>>}

\* source of tests::test_patch_error_surface_left: a red first column.
TestSource ==
    WithPixels(NewImage(11, 11), [c \in {0} \X (0..4) |-> <<255, 0, 0>>])

\* Buffers for it: the test's blank one, one with a red pixel under the
\* patch, and one whose pixels all differ.
TestBuffers ==
    {NewImage(11, 11),
     WithPixels(NewImage(11, 11), (<<0, 1>> :> <<255, 0, 0>>)),
     Ramp(11, 11)}

\* quilter.patch_error_surface(area, &patch, buf_coords) after
\* QuilterParams::new((100, 100), patch_size, overlap, None, None, &l1).
SurfaceCalls ==
    {<<"patch_error_surface", TestSource, b, sz[1], sz[2], area, pc0, bc>> :
        b \in TestBuffers, sz \in {<<5, 1>>, <<4, 2>>},
        area \in {"Top", "Left", "TopLeft"},
        pc0 \in {<<0, 0>>, <<1, 2>>}, bc \in {<<0, 0>>, <<3, 0>>, <<0, 3>>, <<2, 3>>}}

\* (overlap, patch_size) of the seam calls, patch_size >= 2 * overlap as
\* QuilterParams::new requires.
SeamSizes == {<<1, 2>>, <<1, 3>>, <<2, 4>>, <<3, 6>>}

\* The errors of one line of the overlap strip, across the seam.
StripLines(overlap) ==
    IF overlap = 1 THEN {<<0>>, <<1>>}
    ELSE IF overlap = 2 THEN {<<0, 0>>, <<0, 1>>, <<1, 0>>, <<2, 1>>}
    ELSE {<<0, 2, 0>>, <<2, 0, 2>>, <<0, 0, 0>>, <<1, 0, 2>>}

\* The error surface of area Left whose row y is lines[y + 1] in the strip,
\* and its transpose of area Top; ErrorSurface::new is zero elsewhere.
LeftSurface(lines, overlap, patch_size) ==
    [c \in Coords(patch_size, patch_size) |->
        IF c[1] < overlap THEN lines[c[2] + 1][c[1] + 1] ELSE 0]

TopSurface(lines, overlap, patch_size) ==
    [c \in Coords(patch_size, patch_size) |->
        IF c[2] < overlap THEN lines[c[1] + 1][c[2] + 1] ELSE 0]

SeamCalls ==
    UNION {UNION {{<<"minimum_cost_vertical_path", LeftSurface(lines, sz[1], sz[2]), sz[1], sz[2]>>,
                   <<"minimum_cost_horizontal_path", TopSurface(lines, sz[1], sz[2]), sz[1], sz[2]>>} :
                  lines \in [1..sz[2] -> StripLines(sz[1])]} : sz \in SeamSizes}

\* quilter.patch_error(area, &patch, buf_coords) on the same quilters.
PatchErrorCalls ==
    {<<"patch_error">> \o Tail(c) : c \in SurfaceCalls}

\* Sides of the square sources of the cut_and_blit_patch calls.
CutSources == {5, 7}

\* The buffer of quilt_image for an output of size after the first patch,
\* taken at the source's (0, 0), is blitted.
BufferAfterSeed(src, size, patch_size) ==
    blit_rect(NewImage(size[1] + patch_size, size[2] + patch_size), src,
              [coords |-> <<0, 0>>, size |-> <<patch_size, patch_size>>], <<0, 0>>)

\* The call of cut_and_blit_patch for the second grid cell of the first row
\* (Left) or of the first column (Top), err_surf from patch_error_surface.
CutCall(src, size, patch_size, overlap, area, coords) ==
    LET buffer == BufferAfterSeed(src, size, patch_size)
        corner == IF area = "Left" THEN <<patch_size - overlap, 0>>
                  ELSE <<0, patch_size - overlap>>
        patch == [coords |-> coords, size |-> patch_size]
    IN  <<"cut_and_blit_patch", src, buffer, patch_size, overlap, area, coords, corner,
          patch_error_surface(src, buffer, patch_size, overlap, area, patch, corner)>>

CutCalls ==
    UNION {{CutCall(Ramp(side, side), IF area = "Left" THEN <<3, v>> ELSE <<v, 3>>,
                    sz[2], sz[1], area, coords) :
               coords \in (0..(side - sz[2])) \X (0..(side - sz[2])),
               area \in {"Left", "Top"}, v \in {1, 3}} :
           side \in CutSources, sz \in {<<1, 2>>, <<2, 4>>}}

KernelCalls ==
    DrawCalls \cup AreaCalls \cup RectErrorCalls \cup SurfaceCalls \cup SeamCalls
    \cup IterCalls \cup PatchErrorCalls \cup CutCalls

InitKernels ==
    /\ call \in KernelCalls
    /\ ret = None
    /\ build = "debug"
    /\ Idle

CallDraw ==
    /\ ret = None
    /\ call[1] = "select_candidate::draw"
    /\ ret' = Some(Considered(call[2], call[3]))
    /\ UNCHANGED <<call, build, genVars, quiltVars, searchVars>>

\* let area = patch_overlap_area((patch_x, patch_y));
CallPatchOverlapArea ==
    /\ ret = None
    /\ call[1] = "patch_overlap_area"
    /\ ret' = Some(patch_overlap_area(<<call[2], call[3]>>))
    /\ UNCHANGED <<call, build, genVars, quiltVars, searchVars>>
\* Whether get_pixel stays inside img for the rectangle of size at coords.
RectInside(img, coords, size) ==
    \A o \in RectOffsets(size) : InImage(img, coords[1] + o[1], coords[2] + o[2])

\* patch_rect_error(&l1, &i1, &i2, c1, c2, size).  When a rectangle leaves
\* its image, a build with checked get_pixel panics, and one with unchecked
\* get_pixel reads on in the next row or panics past the data.
CallPatchRectError ==
    /\ ret = None
    /\ call[1] = "patch_rect_error"
    /\ IF RectInside(call[2], call[4], call[6]) /\ RectInside(call[3], call[5], call[6])
       THEN ret' = Some(Ok(patch_rect_error(call[2], call[3], call[4], call[5], call[6])))
       ELSE ret' \in {Some(Panic("Image index out of bounds")),
                      Some(patch_rect_error_unchecked(call[2], call[3], call[4], call[5],
                                                      call[6]))}
    /\ UNCHANGED <<call, build, genVars, quiltVars, searchVars>>
CallPatchErrorSurface ==
    /\ ret = None
    /\ call[1] = "patch_error_surface"
    /\ ret' = Some(patch_error_surface(call[2], call[3], call[4], call[5], call[6],
                                       [coords |-> call[7], size |-> call[4]], call[8]))
    /\ UNCHANGED <<call, build, genVars, quiltVars, searchVars>>
CallVerticalPath ==
    /\ ret = None
    /\ call[1] = "minimum_cost_vertical_path"
    /\ ret' = Some(minimum_cost_vertical_path(call[2], call[3], call[4]))
    /\ UNCHANGED <<call, build, genVars, quiltVars, searchVars>>

CallHorizontalPath ==
    /\ ret = None
    /\ call[1] = "minimum_cost_horizontal_path"
    /\ ret' = Some(minimum_cost_horizontal_path(call[2], call[3], call[4]))
    /\ UNCHANGED <<call, build, genVars, quiltVars, searchVars>>
\* Vec::from_iter(neighbourhood.image_iter(&img, img_ref))
CallImageIter ==
    /\ ret = None
    /\ call[1] = "image_iter"
    /\ ret' = Some(image_iter(call[2], call[3], call[4]))
    /\ UNCHANGED <<call, build, genVars, quiltVars, searchVars>>
CallPatchError ==
    /\ ret = None
    /\ call[1] = "patch_error"
    /\ ret' = Some(patch_error(call[2], call[3], call[5], call[6],
                               [coords |-> call[7], size |-> call[4]], call[8]))
    /\ UNCHANGED <<call, build, genVars, quiltVars, searchVars>>
\* self.cut_and_blit_patch(&candidate, corner, &err_surf, area): the buffer
\* after it, or its panic.
CallCutAndBlitPatch ==
    /\ ret = None
    /\ call[1] = "cut_and_blit_patch"
    /\ \E cut \in {cut_and_blit_patch(call[3], call[4], call[5],
                                      [coords |-> call[7], size |-> call[4]], call[9], call[6])} :
           ret' = Some(IF cut.tag # "Ok" THEN cut
                       ELSE IF ~PutFromInBounds(call[3], call[2], call[7], call[8], cut.val)
                       THEN Panic("Image index out of bounds")
                       ELSE Ok(PutFrom(call[3], call[2], call[7], call[8], cut.val)))
    /\ UNCHANGED <<call, build, genVars, quiltVars, searchVars>>
NextKernels ==
    \/ CallDraw
    \/ CallPatchOverlapArea
    \/ CallPatchRectError
    \/ CallPatchErrorSurface
    \/ CallVerticalPath
    \/ CallHorizontalPath
    \/ CallImageIter
    \/ CallPatchError
    \/ CallCutAndBlitPatch

SpecKernels == InitKernels /\ [][NextKernels]_vars

----------------------------------------------------------------------------
(* Claims about the functions                                              *)

\* C11: in probabilistic mode an anchor is evaluated exactly when its draw
\* d satisfies d <= selection_chance.
C11_ConsideredWithChance ==
    Returned("select_candidate::draw") => (Unwrap(ret) <=> call[2] <= call[3])

\* C13: a cell of the first grid column (patch_x = 0, patch_y > 0) gets Top, a
\* cell of the first grid row (patch_y = 0, patch_x > 0) gets Left, and every
\* other cell gets TopLeft.
C13_AreaOfCell ==
    Returned("patch_overlap_area") =>
        /\ (call[2] = 0 /\ call[3] > 0) => Unwrap(ret) = "Top"
        /\ (call[3] = 0 /\ call[2] > 0) => Unwrap(ret) = "Left"
        /\ (call[2] > 0 /\ call[3] > 0) => Unwrap(ret) = "TopLeft"

\* C13's case: the area of a first-row cell right of the seed was computed.
C13_Witness ==
    /\ Returned("patch_overlap_area")
    /\ call[2] > 0 /\ call[3] = 0

\* C13 as stated: the first grid row (patch_y = 0, patch_x > 0) gets Top and
\* the first grid column (patch_x = 0, patch_y > 0) gets Left.
C13_AreaRowTop ==
    Returned("patch_overlap_area") =>
        /\ (call[3] = 0 /\ call[2] > 0) => Unwrap(ret) = "Top"
        /\ (call[2] = 0 /\ call[3] > 0) => Unwrap(ret) = "Left"
        /\ (call[2] > 0 /\ call[3] > 0) => Unwrap(ret) = "TopLeft"
\* The sum of the numbers of a sequence.
RECURSIVE SeqSum(_)
SeqSum(s) == IF s = <<>> THEN 0 ELSE Head(s) + SeqSum(Tail(s))

\* img with every pixel outside the rectangle of size at coords set to other.
Outside(img, coords, size, other) ==
    [img EXCEPT !.px = [c \in DOMAIN img.px |->
        IF c[1] >= coords[1] /\ c[1] < coords[1] + size[1]
           /\ c[2] >= coords[2] /\ c[2] < coords[2] + size[2]
        THEN img.px[c] ELSE other]]

\* C14: patch_rect_error is the sum over 0 <= x < w, 0 <= y < h of the
\* distance between img1(x1 + x, y1 + y) and img2(x2 + x, y2 + y), and it is
\* the same when the pixels outside the two rectangles are changed; the
\* reference test gives 120.
C14_RectErrorIsSum ==
    ( /\ Returned("patch_rect_error") /\ Unwrap(ret).tag = "Ok"
      /\ RectInside(call[2], call[4], call[6]) /\ RectInside(call[3], call[5], call[6]) ) =>
        LET i1 == call[2]  i2 == call[3]  c1 == call[4]  c2 == call[5]  size == call[6]
            rows == [y \in 1..size[2] |->
                        SeqSum([x \in 1..size[1] |->
                                   l1(i1.px[<<c1[1] + x - 1, c1[2] + y - 1>>],
                                      i2.px[<<c2[1] + x - 1, c2[2] + y - 1>>])])]
        IN  /\ Unwrap(ret).val = SeqSum(rows)
            /\ Unwrap(ret).val = patch_rect_error(Outside(i1, c1, size, <<9, 9, 9>>),
                                                  Outside(i2, c2, size, <<5, 0, 1>>),
                                                  c1, c2, size)
            /\ (i1 = TestI1 /\ i2 = TestI2) => Unwrap(ret).val = 120

\* C14's case: the call of the reference test returned.
C14_Witness ==
    /\ Returned("patch_rect_error") /\ Unwrap(ret).tag = "Ok"
    /\ call[2] = TestI1 /\ call[3] = TestI2
    /\ call[4] = <<4, 4>> /\ call[5] = <<0, 0>> /\ call[6] = <<3, 3>>
\* C15: for every area and every cell (x, y) of its overlap region,
\* patch_error_surface stores the distance between source(px + x, py + y)
\* and buffer(bx + x, by + y), whatever the buffer holds.
C15_SurfaceIsPixelwise ==
    Returned("patch_error_surface") =>
        \A c \in SurfaceCells(call[6], call[4], call[5]) :
            Unwrap(ret)[c] = l1(call[2].px[<<call[7][1] + c[1], call[7][2] + c[2]>>],
                                call[3].px[<<call[8][1] + c[1], call[8][2] + c[2]>>])
\* Whether path has exactly one point for every value 0..patch_size-1 of its
\* coordinate along, every coordinate across in 0..overlap-1, and across
\* coordinates of consecutive points at most 1 apart.
IsSeam(path, along, across, overlap, patch_size) ==
    /\ Len(path) = patch_size
    /\ \A v \in 0..(patch_size - 1) :
           Cardinality({i \in 1..Len(path) : path[i][along] = v}) = 1
    /\ \A i \in 1..Len(path) :
           /\ path[i][along] \in 0..(patch_size - 1)
           /\ path[i][across] \in 0..(overlap - 1)
    /\ \A i \in 1..(Len(path) - 1) :
           /\ Abs(path[i + 1][along] - path[i][along]) = 1
           /\ Abs(path[i + 1][across] - path[i][across]) <= 1

\* C16: a path returned by minimum_cost_vertical_path has exactly one point
\* per row of the patch, every column inside the overlap, and columns of
\* consecutive rows at most 1 apart; the same with rows and columns
\* exchanged for minimum_cost_horizontal_path.
C16_PathShape ==
    /\ (Returned("minimum_cost_vertical_path") /\ Unwrap(ret).tag = "Ok") =>
           IsSeam(Unwrap(ret).val, 2, 1, call[3], call[4])
    /\ (Returned("minimum_cost_horizontal_path") /\ Unwrap(ret).tag = "Ok") =>
           IsSeam(Unwrap(ret).val, 1, 2, call[3], call[4])

\* C16's case: a vertical path through an overlap of 3 that changes column
\* was returned.
C16_Witness ==
    /\ Returned("minimum_cost_vertical_path") /\ Unwrap(ret).tag = "Ok"
    /\ call[3] = 3
    /\ Cardinality({Unwrap(ret).val[i][1] : i \in 1..Len(Unwrap(ret).val)}) >= 2
\* Whether the window of nb laid with its reference on img_ref is inside img.
WindowInside(nb, img, img_ref) ==
    /\ img_ref[1] >= nb.reference[1] /\ img_ref[2] >= nb.reference[2]
    /\ img_ref[1] - nb.reference[1] + nb.cols <= img.w
    /\ img_ref[2] - nb.reference[2] + nb.rows <= img.h

\* C17: for an image position whose whole window lies inside the image,
\* image_iter yields the pixels under the On elements of the window, and no
\* others, row by row.
C17_IterYieldsOnPixels ==
    (Returned("image_iter") /\ WindowInside(call[2], call[3], call[4])) =>
        LET nb == call[2]  img == call[3]
            x0 == call[4][1] - nb.reference[1]
            y0 == call[4][2] - nb.reference[2]
            n == nb.rows * nb.cols
            elems == [k \in 1..n |-> nb.elems[<<(k - 1) \div nb.cols, (k - 1) % nb.cols>>]]
            pixels == [k \in 1..n |->
                          img.px[<<x0 + ((k - 1) % nb.cols), y0 + ((k - 1) \div nb.cols)>>]]
        IN  Unwrap(ret) = Ok(UnderOn(elems, pixels))
\* C18: patch_error is the distance summed over exactly the offsets that
\* patch_error_surface fills for the same area: the first overlap rows for
\* Top, the first overlap columns for Left, and their union for TopLeft.
C18_ErrorOverSurfaceCells ==
    Returned("patch_error") =>
        LET cells == SurfaceCells(call[6], call[4], call[5])
            d == [c \in cells |->
                     l1(call[2].px[<<call[7][1] + c[1], call[7][2] + c[2]>>],
                        call[3].px[<<call[8][1] + c[1], call[8][2] + c[2]>>])]
        IN  Unwrap(ret) = SumOver(d, cells)
\* The sum of the error surface e along path.
PathCost(e, path) == SeqSum([i \in 1..Len(path) |-> e[path[i]]])

\* C19: the errors along the returned vertical path add up to the smallest
\* accumulated cost of the bottom row of the cost map, and those along the
\* returned horizontal path to the smallest of its last column.
C19_PathIsMinimal ==
    /\ (Returned("minimum_cost_vertical_path") /\ Unwrap(ret).tag = "Ok") =>
           LET cost_map == vertical_cost_map(call[2], call[3], call[4]) IN
           \E x \in 0..(call[3] - 1) :
               /\ PathCost(call[2], Unwrap(ret).val) = cost_map[<<x, call[4] - 1>>]
               /\ \A o \in 0..(call[3] - 1) :
                      cost_map[<<x, call[4] - 1>>] <= cost_map[<<o, call[4] - 1>>]
    /\ (Returned("minimum_cost_horizontal_path") /\ Unwrap(ret).tag = "Ok") =>
           LET cost_map == horizontal_cost_map(call[2], call[3], call[4]) IN
           \E y \in 0..(call[3] - 1) :
               /\ PathCost(call[2], Unwrap(ret).val) = cost_map[<<call[4] - 1, y>>]
               /\ \A o \in 0..(call[3] - 1) :
                      cost_map[<<call[4] - 1, y>>] <= cost_map[<<call[4] - 1, o>>]
\* The across coordinate of the point of path whose along coordinate is v.
SeamAt(path, along, across, v) ==
    (CHOOSE p \in {path[i] : i \in 1..Len(path)} : p[along] = v)[across]

\* C20: after cut_and_blit_patch for Left, in every row of the patch the
\* buffer cells from the path's column on hold the candidate's pixels, the
\* cells left of it keep what they held, and cells outside the patch are
\* unchanged; for Top the same with rows and columns exchanged.
C20_CutAlongSeam ==
    (Returned("cut_and_blit_patch") /\ Unwrap(ret).tag = "Ok") =>
        LET src == call[2]  old == call[3]  new == Unwrap(ret).val
            coords == call[7]  corner == call[8]
            path == IF call[6] = "Left"
                    THEN minimum_cost_vertical_path(call[9], call[5], call[4]).val
                    ELSE minimum_cost_horizontal_path(call[9], call[5], call[4]).val
        IN  \A c \in DOMAIN old.px :
                LET o == <<c[1] - corner[1], c[2] - corner[2]>>
                    taken == IF call[6] = "Left" THEN o[1] >= SeamAt(path, 2, 1, o[2])
                             ELSE o[2] >= SeamAt(path, 1, 2, o[1])
                IN  IF o \in Coords(call[4], call[4]) /\ taken
                    THEN new.px[c] = src.px[<<coords[1] + o[1], coords[2] + o[2]>>]
                    ELSE new.px[c] = old.px[c]
\* C21: when cut_and_blit_patch places a patch of area TopLeft, a pixel
\* (x, y) of the overlap by overlap corner block takes the candidate's pixel
\* exactly when x is at or past the vertical path's column in row y and y is
\* at or past the horizontal path's row in column x; every other corner
\* pixel keeps what the buffer held.
C21_CornerBetweenSeams ==
    [][(pc = "blit" /\ patch_overlap_area(patch_no) = "TopLeft" /\ trace' # trace) =>
          LET old == Unwrap(buffer_opt)
              new == Unwrap(buffer_opt')
              patch == Unwrap(candidate)
              corner == Corner(params, patch_no)
              err_surf == patch_error_surface(source, old, params.patch_size, params.overlap,
                                              "TopLeft", patch, corner)
              vpath == minimum_cost_vertical_path(err_surf, params.overlap,
                                                  params.patch_size).val
              hpath == minimum_cost_horizontal_path(err_surf, params.overlap,
                                                    params.patch_size).val
          IN  \A o \in Coords(params.overlap, params.overlap) :
                  new.px[<<corner[1] + o[1], corner[2] + o[2]>>] =
                      IF o[1] >= SeamAt(vpath, 2, 1, o[2]) /\ o[2] >= SeamAt(hpath, 1, 2, o[1])
                      THEN source.px[<<patch.coords[1] + o[1], patch.coords[2] + o[2]>>]
                      ELSE old.px[<<corner[1] + o[1], corner[2] + o[2]>>]]_vars

\* C21's case: the patch of grid cell (1, 1), which overlaps both its left
\* and its upper neighbour, was placed.
C21_Witness ==
    \E i \in 1..Len(trace) : trace[i] = <<"blit", <<1, 1>>>>
\* The grid cells whose patches are in the buffer, in the order they were put.
Blitted == SelectSeq(trace, LAMBDA t : t[1] = "blit")

\* C22: patches are placed one after another in row-major grid order from
\* the seed cell (0, 0) on, so while the patch of a cell is selected and
\* placed the cells left of it and above it are placed already and the
\* overlap region of the cell is written.
C22_RowMajorOrder ==
    (pc \in {"select", "pick", "blit"}) =>
        LET columns == GridSize(params)[1]
            n == patch_no[2] * columns + patch_no[1]
            area == patch_overlap_area(patch_no)
            corner == Corner(params, patch_no)
        IN  /\ Len(Blitted) = n
            /\ \A i \in 1..n : Blitted[i][2] = <<(i - 1) % columns, (i - 1) \div columns>>
            /\ patch_no[1] > 0 =>
                   \E i \in 1..n : Blitted[i][2] = <<patch_no[1] - 1, patch_no[2]>>
            /\ patch_no[2] > 0 =>
                   \E i \in 1..n : Blitted[i][2] = <<patch_no[1], patch_no[2] - 1>>
            /\ ShiftAll(SurfaceCells(area, params.patch_size, params.overlap),
                        corner[1], corner[2]) \subseteq written

\* C22's case: the patch of grid cell (1, 1) is about to be placed, after
\* those of (0, 0), (1, 0), ... and (0, 1).
C22_Witness ==
    /\ pc = "blit"
    /\ patch_no = <<1, 1>>
\* The filled cells of the window_size by window_size window centred on
\* coords, clipped to the mask, the centre left out.
FilledInWindow(m, window_size, coords) ==
    LET d == (window_size - 1) \div 2 IN
    {c \in Coords(m.w, m.h) :
        /\ Abs(c[1] - coords[1]) <= d /\ Abs(c[2] - coords[2]) <= d
        /\ c # coords
        /\ m.px[c] # 0}

\* C23: for every unfilled pixel next to a filled one, pixel_num_neigbours
\* returns the number of filled cells of the window centred on it and
\* clipped to the mask, without reading outside the mask, square or not.
C23_NeighbourCount ==
    (impl = "search.rs" /\ pc = "grow") =>
        \A c \in Coords(Unwrap(mask).w, Unwrap(mask).h) :
            (Unwrap(mask).px[c] = 0 /\ is_edge_pixel(Unwrap(mask), c[1], c[2])) =>
                pixel_num_neigbours(Unwrap(mask), params.window_size, c)
                    = Ok(Cardinality(FilledInWindow(Unwrap(mask), params.window_size, c)))
\* C24: for every pixel the main loop can choose and every source
\* candidate, the loops of neighbourhood_error go through exactly the
\* offsets within d of the centre at which the target stays in the buffer
\* and the candidate in the source, read mask, buffer and source inside
\* their bounds, and the result is the mean distance over the offsets whose
\* buffer cell is filled, or None when there is none.
C24_ErrorOverClippedWindow ==
    (impl = "search.rs" /\ pc = "grow") =>
        LET m == Unwrap(mask)
            buffer == Unwrap(buffer_opt)
            d == (params.window_size - 1) \div 2
        IN  \A p \in {c \in Coords(m.w, m.h) : m.px[c] = 0 /\ is_edge_pixel(m, c[1], c[2])} :
            \A n \in Coords(source.w, source.h) :
                LET visited == {o \in ((0 - d)..d) \X ((0 - d)..d) :
                                   /\ InImage(buffer, p[1] + o[1], p[2] + o[2])
                                   /\ InImage(source, n[1] + o[1], n[2] + o[2])}
                    filled == {o \in visited : m.px[<<p[1] + o[1], p[2] + o[2]>>] # 0}
                    dist == [o \in filled |->
                                l2(source.px[<<n[1] + o[1], n[2] + o[2]>>],
                                   buffer.px[<<p[1] + o[1], p[2] + o[2]>>])]
                IN  /\ neighbourhood_window(source, m, params.window_size, p, n) = visited
                    /\ \A o \in visited : InImage(m, p[1] + o[1], p[2] + o[2])
                    /\ neighbourhood_error(source, buffer, m, params.window_size, p, n)
                           = IF filled = {} THEN None
                             ELSE Some(<<SumOver(dist, filled), Cardinality(filled)>>)

\* C24's case: with a window of 3 the loop is at a pixel in a corner of the
\* buffer, where the window is cut on two sides, and part of the buffer is
\* filled beyond the seed.
C24_Witness ==
    /\ impl = "search.rs" /\ pc = "grow"
    /\ params.window_size = 3
    /\ Unwrap(mask).px[<<0, 0>>] = 0
    /\ is_edge_pixel(Unwrap(mask), 0, 0)
    /\ Cardinality(written) > 9
\* The cells of filled that a chain of 4-adjacent cells of filled joins to S.
RECURSIVE Grown(_, _)
Grown(S, filled) ==
    LET more == S \cup {c \in filled :
                           \E s \in S : Abs(c[1] - s[1]) + Abs(c[2] - s[2]) = 1}
    IN  IF more = S THEN S ELSE Grown(more, filled)

Connected(filled) ==
    filled = {} \/ Grown({CHOOSE c \in filled : TRUE}, filled) = filled

\* C25: in the main loop of synthesize the filled cells of the mask are
\* 4-connected, and every turn of the loop changes one mask cell, from
\* unfilled to filled, and writes the buffer at that cell only.
C25_GrowsByOne ==
    /\ []((impl = "search.rs" /\ pc = "grow") =>
             Connected({c \in DOMAIN Unwrap(mask).px : Unwrap(mask).px[c] # 0}))
    /\ [][(impl = "search.rs" /\ pc = "grow" /\ n_pixels' # n_pixels) =>
             \E c \in DOMAIN Unwrap(mask).px :
                 /\ Unwrap(mask).px[c] = 0 /\ Unwrap(mask').px[c] # 0
                 /\ \A o \in DOMAIN Unwrap(mask).px \ {c} :
                        /\ Unwrap(mask').px[o] = Unwrap(mask).px[o]
                        /\ Unwrap(buffer_opt').px[o] = Unwrap(buffer_opt).px[o]]_vars

\* C25's case: the loop has filled every cell of an output larger than the
\* seed.
C25_Witness ==
    /\ impl = "search.rs" /\ pc = "grow"
    /\ n_pixels = 0
    /\ Cardinality(DOMAIN Unwrap(mask).px) > 9
\* C26: for every overlap and patch_size that QuilterParams::new accepts,
\* overlap 1 included, the walks of minimum_cost_vertical_path and
\* minimum_cost_horizontal_path look up only cells the cost map holds, so
\* they return a path.
C26_SeamLookupsFound ==
    ( /\ Returned("minimum_cost_vertical_path") \/ Returned("minimum_cost_horizontal_path")
      /\ QuilterParamsNew(<<1, 1>>, call[4], call[3], None, None).tag = "Ok" ) =>
        Unwrap(ret).tag = "Ok"

\* The offsets of the rectangles patch_error hands to patch_rect_error for
\* an area.
ErrorOffsets(area, patch_size, overlap) ==
    IF area = "Top" THEN RectOffsets(<<overlap, patch_size>>)
    ELSE IF area = "Left" THEN RectOffsets(<<patch_size, overlap>>)
    ELSE RectOffsets(<<patch_size, overlap>>)
         \cup ShiftAll(RectOffsets(<<overlap, patch_size - overlap>>), 0, overlap)

\* C27: with validated parameters every pixel quilt_image addresses is
\* inside its image: the seed blit, the rectangles patch_error compares for
\* every anchor of the scan, the pixels patch_error_surface compares, and
\* the pixels the cut copies, in the working buffer of (size + patch_size)
\* and in the source, for every cell of the grid.
C27_AccessesInside ==
    /\ pc = "aborted" => Unwrap(result) # Panic("Image index out of bounds")
    /\ (pc = "seed" /\ MaxAnchor(source, params)[1] > 0 /\ MaxAnchor(source, params)[2] > 0) =>
           \A coords \in (IF IsSome(params.seed_coords)
                          THEN {Unwrap(params.seed_coords)}
                          ELSE (0..(MaxAnchor(source, params)[1] - 1))
                               \X (0..(MaxAnchor(source, params)[2] - 1))) :
               PutFromInBounds(Unwrap(buffer_opt), source, coords, <<0, 0>>,
                               RectOffsets(<<params.patch_size, params.patch_size>>))
    /\ (pc \in {"select", "pick", "blit"}) =>
           \A x \in 0..MaxAnchor(source, params)[1], y \in 0..MaxAnchor(source, params)[2] :
               PutFromInBounds(Unwrap(buffer_opt), source, <<x, y>>, Corner(params, patch_no),
                               ErrorOffsets(patch_overlap_area(patch_no),
                                            params.patch_size, params.overlap))
    /\ pc = "blit" =>
           LET buffer == Unwrap(buffer_opt)
               patch == Unwrap(candidate)
               area == patch_overlap_area(patch_no)
               corner == Corner(params, patch_no)
               cut == cut_and_blit_patch(buffer, params.patch_size, params.overlap, patch,
                          patch_error_surface(source, buffer, params.patch_size,
                                              params.overlap, area, patch, corner), area)
           IN  /\ \A c \in SurfaceCells(area, params.patch_size, params.overlap) :
                      /\ InImage(source, patch.coords[1] + c[1], patch.coords[2] + c[2])
                      /\ InImage(buffer, corner[1] + c[1], corner[2] + c[1])
               /\ cut.tag = "Ok" =>
                      PutFromInBounds(buffer, source, patch.coords, corner, cut.val)

\* C27's case: the last cell of a grid whose last column and last row are
\* partial has been cut and copied.
C27_Witness ==
    /\ pc \in {"crop", "done"}
    /\ params.size[1] % Step(params) # 0 /\ params.size[2] % Step(params) # 0
    /\ GridSize(params)[1] > 1 /\ GridSize(params)[2] > 1
    /\ \E i \in 1..Len(trace) :
           trace[i] = <<"blit", <<GridSize(params)[1] - 1, GridSize(params)[2] - 1>>>>

\* The scan of select_candidate with the anchors handled in the order of
\* the sequence anchors.
RECURSIVE ScanInOrder(_, _)
ScanInOrder(sc, anchors) ==
    IF anchors = <<>> THEN sc
    ELSE ScanInOrder(Evaluate(sc, source, Unwrap(buffer_opt), params, patch_no,
                              Head(anchors)[1], Head(anchors)[2]),
                     Tail(anchors))

\* The anchors of the source row after row, each row from left to right.
RowMajorAnchors ==
    LET w == MaxAnchor(source, params)[1] + 1
        h == MaxAnchor(source, params)[2] + 1
    IN  [k \in 1..(w * h) |-> <<(k - 1) % w, (k - 1) \div w>>]

\* C28: in exhaustive mode the candidates left by the final filter are the
\* same set whatever the order in which the workers of the rows took the
\* locks: the set the scan in row-major order leaves.
C28_PoolOrderFree ==
    (pc = "pick" /\ params.selection_chance = None) =>
        Candidates(Unwrap(scan)) = Candidates(ScanInOrder(NewScan(source, params), RowMajorAnchors))

\* C29: for every output size PixelSearchParams::new accepts, synthesize
\* computes the corner (w / 2 - 1, h / 2 - 1) without underflow and the 3x3
\* seed rectangle at that corner lies inside the w x h buffer, so that it
\* does not stop before the seed is placed.
C29_SeedRectInside ==
    (impl = "search.rs" /\ pc # "start") =>
        /\ ~(pc = "aborted" /\ written = {})
        /\ params.size[1] \div 2 >= 1 /\ params.size[2] \div 2 >= 1
        /\ ShiftAll(RectOffsets(<<3, 3>>), MaskSeedCorner(params.size)[1],
                    MaskSeedCorner(params.size)[2])
               \subseteq Coords(params.size[1], params.size[2])

\* The error of the source pixel n as candidate for the pixel c of the
\* current buffer and mask.
ErrorAt(c, n) ==
    neighbourhood_error(source, Unwrap(buffer_opt), Unwrap(mask), params.window_size, c, n)

\* C30: with an odd window_size of at least 3 (outputs of at least 3x3,
\* sources of at least 4x4), every unfilled pixel next to a filled one has a
\* source pixel with an error, so synthesize_pixel never indexes an empty
\* list, and the pixel a turn of the loop writes is the colour of a source
\* pixel whose error is at most 1.1 times every other error.
C30_CandidateWithinBound ==
    /\ []((impl = "search.rs" /\ params.window_size >= 3) =>
            /\ ~(pc = "aborted" /\ Unwrap(result) =
                    Panic("index out of bounds: the len is 0 but the index is 0"))
            /\ pc = "grow" =>
                  \A c \in {e \in DOMAIN Unwrap(mask).px :
                               Unwrap(mask).px[e] = 0 /\ is_edge_pixel(Unwrap(mask), e[1], e[2])} :
                      \E n \in DOMAIN source.px : IsSome(ErrorAt(c, n)))
    /\ [][(impl = "search.rs" /\ params.window_size >= 3 /\ pc = "grow"
           /\ n_pixels' # n_pixels) =>
             \E c \in DOMAIN Unwrap(mask).px :
                 /\ Unwrap(mask).px[c] = 0 /\ Unwrap(mask').px[c] # 0
                 /\ \E errors \in {{<<n, ErrorAt(c, n)>> : n \in DOMAIN source.px}} :
                    \E e \in errors :
                        /\ Unwrap(buffer_opt').px[c] = source.px[e[1]]
                        /\ IsSome(e[2])
                        /\ \A o \in errors :
                               IsSome(o[2]) => WithinBound(Unwrap(e[2]), Unwrap(o[2]))]_vars

\* C30's case: with window_size 3 the loop has written pixels beyond the
\* seed.
C30_Witness ==
    /\ impl = "search.rs" /\ pc = "grow"
    /\ params.window_size = 3
    /\ Cardinality(written) > 10
====
